---- MODULE Spec2Model ----
(***************************************************************************)
(* Curve and surface-of-revolution engine of the computacao-grafica demos. *)
(*                                                                         *)
(*   src/unnamed/part_000  CurveGenerator (Bezier, B-Spline, integer knot  *)
(*                         convention), revolution editor                  *)
(*   src/curvas/script.js  curve editor: rational Bezier, B-Spline over a  *)
(*                         [0,1] knot vector, fixed-step drawing           *)
(*                                                                         *)
(* JavaScript numbers are modelled as exact rationals [n, d] in lowest     *)
(* terms with d > 0: the statements checked here are the exact-arithmetic  *)
(* statements that the floating-point code approximates within the         *)
(* tolerances the specification names (1e-6, 1e-9).  A division by zero    *)
(* yields the non-finite value NonFinite.                                  *)
(***************************************************************************)
EXTENDS Integers, Sequences, FiniteSets, TLC

\* ------------------------------------------------------------------ bounds
MaxPoints == 6        \* longest control-point list passed to the Bezier evaluators
MaxSplinePoints == 6  \* longest control-point list passed to the B-Spline evaluators
MaxDegree == 3        \* largest B-Spline degree
MaxRes == 4           \* largest resolution (samples - 1) of generateBezier/generateBSpline
TGrid == 10           \* directly evaluated parameters are t = i/TGrid, i in 0..TGrid
MaxStepDen == 5       \* the editor's steps are p/q with 1 <= p <= q <= MaxStepDen
MaxEditorPoints == 3  \* longest list handed to the editor's setPoints
MaxProfile == 3       \* longest profile passed to RevolutionSurface.generate
MaxSubdiv == 3        \* most subdivisions passed to RevolutionSurface.generate
MaxCurvePoints == 4   \* the curve editor's canvas adds points up to this many
MaxControlPoints == 3 \* the revolution editor's canvas adds points up to this many
MaxSamples == 4       \* most samples of an arc-length table

\* ------------------------------------------------------- number arithmetic
RECURSIVE GCD(_, _)
GCD(a, b) == IF b = 0 THEN a ELSE GCD(b, a % b)

Abs(a) == IF a < 0 THEN -a ELSE a

Rat(n, d) ==
  LET s == IF d < 0 THEN -1 ELSE 1
      g == GCD(Abs(n), Abs(d))
  IN  [n |-> (s * n) \div g, d |-> (s * d) \div g]

Num(i) == [n |-> i, d |-> 1]

Zero == Num(0)

One == Num(1)

\* the result of x/0: NaN or +-Infinity, for which isFinite is false
NonFinite == [n |-> 0, d |-> 0]

IsFinite(p) == p.d # 0

RAdd(p, q) ==
  IF ~IsFinite(p) \/ ~IsFinite(q) THEN NonFinite
  ELSE LET g == GCD(p.d, q.d)
       IN  Rat(p.n * (q.d \div g) + q.n * (p.d \div g), (p.d \div g) * q.d)

RNeg(p) == [n |-> -p.n, d |-> p.d]

RSub(p, q) == RAdd(p, RNeg(q))

RMul(p, q) ==
  IF ~IsFinite(p) \/ ~IsFinite(q) THEN NonFinite
  ELSE LET g1 == GCD(Abs(p.n), q.d)
           g2 == GCD(Abs(q.n), p.d)
       IN  [n |-> (p.n \div g1) * (q.n \div g2), d |-> (p.d \div g2) * (q.d \div g1)]

RDiv(p, q) ==
  IF ~IsFinite(p) \/ ~IsFinite(q) \/ q.n = 0 THEN NonFinite
  ELSE RMul(p, Rat(q.d, q.n))

\* comparisons with a non-finite operand are false, as with NaN
RLt(p, q) ==
  /\ IsFinite(p) /\ IsFinite(q)
  /\ LET g == GCD(p.d, q.d) IN p.n * (q.d \div g) < q.n * (p.d \div g)

RLe(p, q) == IsFinite(p) /\ IsFinite(q) /\ ~RLt(q, p)

RMin(p, q) == IF RLt(q, p) THEN q ELSE p

RMax(p, q) == IF RLt(p, q) THEN q ELSE p

RECURSIVE SumSeq(_)
SumSeq(s) == IF s = <<>> THEN Zero ELSE RAdd(s[1], SumSeq(Tail(s)))

\* an array literal: every element is computed once, when the array is built
Array(s) == s \o <<>>

\* ------------------------------------------------------------------ points
Pt(x, y) == [x |-> Num(x), y |-> Num(y)]

WPt(x, y, w) == [x |-> Num(x), y |-> Num(y), w |-> Num(w)]

\* {x,y,w} objects read as {x,y} objects (the w property is ignored)
XY(ctrl) == Array([i \in 1..Len(ctrl) |-> [x |-> ctrl[i].x, y |-> ctrl[i].y]])

\* ------------------------------------------- CurveGenerator (part_000)
\* mutant: the two interpolation weights exchanged
DeCasteljauStepSwapped(points, t) ==
  Array([i \in 1..(Len(points) - 1) |->
     [x |-> RAdd(RMul(t, points[i].x), RMul(RSub(One, t), points[i + 1].x)),
      y |-> RAdd(RMul(t, points[i].y), RMul(RSub(One, t), points[i + 1].y))]])

DeCasteljauStep(points, t) ==
  Array([i \in 1..(Len(points) - 1) |->
     [x |-> RAdd(RMul(RSub(One, t), points[i].x), RMul(t, points[i + 1].x)),
      y |-> RAdd(RMul(RSub(One, t), points[i].y), RMul(t, points[i + 1].y))]])

\* mutant: the recursion stops one level early
RECURSIVE deCasteljauShort(_, _)
deCasteljauShort(points, t) ==
  IF Len(points) <= 2 THEN points[1]
  ELSE deCasteljauShort(DeCasteljauStep(points, t), t)

RECURSIVE deCasteljau(_, _)
deCasteljau(points, t) ==
  IF Len(points) = 1 THEN points[1]
  ELSE deCasteljau(DeCasteljauStep(points, t), t)

\* mutant: the guard lets a single control point through
generateBezierOnePoint(controlPoints, resolution) ==
  IF Len(controlPoints) < 1 THEN <<>>
  ELSE Array([k \in 1..(resolution + 1) |-> deCasteljau(controlPoints, Rat(k - 1, resolution))])

generateBezier(controlPoints, resolution) ==
  IF Len(controlPoints) < 2 THEN <<>>
  ELSE Array([k \in 1..(resolution + 1) |-> deCasteljau(controlPoints, Rat(k - 1, resolution))])

\* knots[i] of the zero-based JavaScript array
Knot(knots, i) == knots[i + 1]

\* mutant: every degree-0 interval closed on the right
RECURSIVE bSplineBasisClosed(_, _, _, _)
bSplineBasisClosed(i, k, t, knots) ==
  IF k = 0
  THEN IF RLe(Knot(knots, i), t) /\ RLe(t, Knot(knots, i + 1)) THEN One ELSE Zero
  ELSE LET c1 == IF Knot(knots, i + k) # Knot(knots, i)
                 THEN RMul(RDiv(RSub(t, Knot(knots, i)),
                                RSub(Knot(knots, i + k), Knot(knots, i))),
                           bSplineBasisClosed(i, k - 1, t, knots))
                 ELSE Zero
           c2 == IF Knot(knots, i + k + 1) # Knot(knots, i + 1)
                 THEN RMul(RDiv(RSub(Knot(knots, i + k + 1), t),
                                RSub(Knot(knots, i + k + 1), Knot(knots, i + 1))),
                           bSplineBasisClosed(i + 1, k - 1, t, knots))
                 ELSE Zero
       IN  RAdd(c1, c2)

RECURSIVE bSplineBasis(_, _, _, _)
bSplineBasis(i, k, t, knots) ==
  IF k = 0
  THEN IF i = Len(knots) - 2
       THEN IF RLe(Knot(knots, i), t) /\ RLe(t, Knot(knots, i + 1)) THEN One ELSE Zero
       ELSE IF RLe(Knot(knots, i), t) /\ RLt(t, Knot(knots, i + 1)) THEN One ELSE Zero
  ELSE LET c1 == IF Knot(knots, i + k) # Knot(knots, i)
                 THEN RMul(RDiv(RSub(t, Knot(knots, i)),
                                RSub(Knot(knots, i + k), Knot(knots, i))),
                           bSplineBasis(i, k - 1, t, knots))
                 ELSE Zero
           c2 == IF Knot(knots, i + k + 1) # Knot(knots, i + 1)
                 THEN RMul(RDiv(RSub(Knot(knots, i + k + 1), t),
                                RSub(Knot(knots, i + k + 1), Knot(knots, i + 1))),
                           bSplineBasis(i + 1, k - 1, t, knots))
                 ELSE Zero
       IN  RAdd(c1, c2)

\* knots[i] as JavaScript reads it: undefined outside the array
KnotRead(knots, i) == IF i \in 0..(Len(knots) - 1) THEN knots[i + 1] ELSE NonFinite

\* mutant: both terms divided without the !== tests
RECURSIVE bSplineBasisAccessesUnguarded(_, _, _, _)
bSplineBasisAccessesUnguarded(i, k, t, knots) ==
  IF k = 0
  THEN [reads |-> {i, i + 1}, divisors |-> {}, skipped |-> 0]
  ELSE LET a1 == bSplineBasisAccessesUnguarded(i, k - 1, t, knots)
           a2 == bSplineBasisAccessesUnguarded(i + 1, k - 1, t, knots)
       IN  [reads |-> {i, i + 1, i + k, i + k + 1} \cup a1.reads \cup a2.reads,
            divisors |-> {RSub(KnotRead(knots, i + k), KnotRead(knots, i)),
                          RSub(KnotRead(knots, i + k + 1), KnotRead(knots, i + 1))}
                           \cup a1.divisors \cup a2.divisors,
            skipped |-> a1.skipped + a2.skipped]

\* what one call of bSplineBasis does with the knot vector, at every depth:
\* the indices it reads, the numbers it divides by, and how many terms the
\* !== tests left at 0
RECURSIVE bSplineBasisAccesses(_, _, _, _)
bSplineBasisAccesses(i, k, t, knots) ==
  IF k = 0
  THEN [reads |-> {i} \cup (IF RLe(KnotRead(knots, i), t) THEN {i + 1} ELSE {}),
        divisors |-> {}, skipped |-> 0]
  ELSE LET first == KnotRead(knots, i + k) # KnotRead(knots, i)
           second == KnotRead(knots, i + k + 1) # KnotRead(knots, i + 1)
           none == [reads |-> {}, divisors |-> {}, skipped |-> 1]
           a1 == IF first THEN bSplineBasisAccesses(i, k - 1, t, knots) ELSE none
           a2 == IF second THEN bSplineBasisAccesses(i + 1, k - 1, t, knots) ELSE none
       IN  [reads |-> {i, i + 1, i + k, i + k + 1} \cup a1.reads \cup a2.reads,
            divisors |->
              (IF first THEN {RSub(KnotRead(knots, i + k), KnotRead(knots, i))} ELSE {})
              \cup (IF second
                    THEN {RSub(KnotRead(knots, i + k + 1), KnotRead(knots, i + 1))}
                    ELSE {})
              \cup a1.divisors \cup a2.divisors,
            skipped |-> a1.skipped + a2.skipped]

generateKnotVector(n, degree) ==
  Array([j \in 1..(n + degree + 1) |->
     LET i == j - 1
     IN  IF i < degree + 1 THEN Num(0)
         ELSE IF i >= n THEN Num(n - degree)
         ELSE Num(i - degree)])

\* the loop body of generateBSpline for sample i: the parameter, the
\* accumulated point and the accumulated sum of the basis values
BSplineSample(controlPoints, degree, resolution, knots, i) ==
  LET n == Len(controlPoints)
      minKnot == Knot(knots, degree)
      maxKnot == Knot(knots, n)
      t == RAdd(minKnot, RMul(Rat(i, resolution), RSub(maxKnot, minKnot)))
      basis == Array([j \in 1..n |-> bSplineBasis(j - 1, degree, t, knots)])
  IN  [t |-> t,
       sumBasis |-> SumSeq(basis),
       x |-> SumSeq(Array([j \in 1..n |-> RMul(basis[j], controlPoints[j].x)])),
       y |-> SumSeq(Array([j \in 1..n |-> RMul(basis[j], controlPoints[j].y)]))]

\* sumBasis > 1e-6
Significant(s) == IsFinite(s) /\ s.n > s.d \div 1000000

BSplineKept(s) == IsFinite(s.x) /\ IsFinite(s.y) /\ Significant(s.sumBasis)

BSplineSamples(controlPoints, degree, resolution) ==
  IF Len(controlPoints) < degree + 1 THEN <<>>
  ELSE LET knots == generateKnotVector(Len(controlPoints), degree)
       IN  Array([k \in 1..(resolution + 1) |->
              BSplineSample(controlPoints, degree, resolution, knots, k - 1)])

PointOf(s) == [x |-> s.x, y |-> s.y]

\* curve.push({x, y}) for the samples that pass the filter
KeptPoints(samples) ==
  LET kept == SelectSeq(samples, BSplineKept)
  IN  Array([k \in 1..Len(kept) |-> PointOf(kept[k])])

generateBSpline(controlPoints, degree, resolution) ==
  KeptPoints(BSplineSamples(controlPoints, degree, resolution))

generateCurve(controlPoints, type, degree, resolution) ==
  IF type = "bezier" THEN generateBezier(controlPoints, resolution)
  ELSE IF type = "bspline" THEN generateBSpline(controlPoints, degree, resolution)
  ELSE <<>>

\* ------------------------------------------- curve editor (curvas/script.js)
RationalRound(pts, r, t) ==
  Array([i \in 1..Len(pts) |->
     IF i <= Len(pts) - r
     THEN [x |-> RAdd(RMul(RSub(One, t), pts[i].x), RMul(t, pts[i + 1].x)),
           y |-> RAdd(RMul(RSub(One, t), pts[i].y), RMul(t, pts[i + 1].y)),
           w |-> RAdd(RMul(RSub(One, t), pts[i].w), RMul(t, pts[i + 1].w))]
     ELSE pts[i]])

\* mutant: the outer loop runs r < n instead of r <= n
RECURSIVE RationalRoundsShort(_, _, _)
RationalRoundsShort(pts, r, t) ==
  IF r >= Len(pts) - 1 THEN pts
  ELSE RationalRoundsShort(RationalRound(pts, r, t), r + 1, t)

RECURSIVE RationalRounds(_, _, _)
RationalRounds(pts, r, t) ==
  IF r > Len(pts) - 1 THEN pts
  ELSE RationalRounds(RationalRound(pts, r, t), r + 1, t)

deCasteljauRational(ctrl, t) ==
  LET homog == Array([i \in 1..Len(ctrl) |->
                  [x |-> RMul(ctrl[i].x, ctrl[i].w),
                   y |-> RMul(ctrl[i].y, ctrl[i].w),
                   w |-> ctrl[i].w]])
      pts == RationalRounds(homog, 1, t)
  IN  [x |-> RDiv(pts[1].x, pts[1].w), y |-> RDiv(pts[1].y, pts[1].w)]

RECURSIVE bsplineBasis(_, _, _, _)
bsplineBasis(i, k, t, knot) ==
  IF k = 0
  THEN IF RLe(Knot(knot, i), t) /\ RLt(t, Knot(knot, i + 1)) THEN One ELSE Zero
  ELSE LET denom1 == RSub(Knot(knot, i + k), Knot(knot, i))
           denom2 == RSub(Knot(knot, i + k + 1), Knot(knot, i + 1))
           term1 == IF denom1 # Zero
                    THEN RMul(RDiv(RSub(t, Knot(knot, i)), denom1),
                              bsplineBasis(i, k - 1, t, knot))
                    ELSE Zero
           term2 == IF denom2 # Zero
                    THEN RMul(RDiv(RSub(Knot(knot, i + k + 1), t), denom2),
                              bsplineBasis(i + 1, k - 1, t, knot))
                    ELSE Zero
       IN  RAdd(term1, term2)

\* mutant: the interior knots divided by m - degree
uniformKnotVectorDenom(nCtrl, degree) ==
  LET n == nCtrl - 1
      m == n + degree + 1
  IN  Array([j \in 1..(m + 1) |->
         LET i == j - 1
         IN  IF i <= degree THEN Num(0)
             ELSE IF i >= m - degree THEN Num(1)
             ELSE Rat(i - degree, m - degree)])

uniformKnotVector(nCtrl, degree) ==
  LET n == nCtrl - 1
      m == n + degree + 1
  IN  Array([j \in 1..(m + 1) |->
         LET i == j - 1
         IN  IF i <= degree THEN Num(0)
             ELSE IF i >= m - degree THEN Num(1)
             ELSE Rat(i - degree, m - 2 * degree)])

evalBSpline(ctrl, degree, t, knot) ==
  LET b == Array([i \in 1..Len(ctrl) |-> bsplineBasis(i - 1, degree, t, knot)])
  IN  [x |-> SumSeq(Array([i \in 1..Len(ctrl) |-> RMul(b[i], ctrl[i].x)])),
       y |-> SumSeq(Array([i \in 1..Len(ctrl) |-> RMul(b[i], ctrl[i].y)]))]

\* mutant: t < 1, the endpoint is left out
LoopGuardStrict(t) == IsFinite(t) /\ t.n < t.d

\* t <= 1 + 1e-9
LoopGuard(t) == IsFinite(t) /\ t.n - t.d <= t.d \div 1000000000

\* the values of the loop variable of  for (t = 0; t <= 1 + 1e-9; t += step)
RECURSIVE StepSamples(_, _)
StepSamples(t, step) ==
  IF LoopGuard(t) THEN <<t>> \o StepSamples(RAdd(t, step), step) ELSE <<>>

\* drawBezier, drawBSpline and draw yield the values of t at which the curve
\* is evaluated, in order: one moveTo/lineTo each
drawBezier(pts, stp) ==
  IF Len(pts) < 2 THEN <<>> ELSE StepSamples(Zero, stp)

drawBSpline(pts, stp) ==
  IF Len(pts) < 2 THEN <<>> ELSE StepSamples(Zero, stp)

draw(pts, md, stp) ==
  IF Len(pts) > 0
  THEN IF md = "bezier" THEN drawBezier(pts, stp) ELSE drawBSpline(pts, stp)
  ELSE <<>>

\* the polyline drawn for those values of t
BezierPath(pts, ts) ==
  Array([k \in 1..Len(ts) |-> deCasteljauRational(pts, ts[k])])

BSplinePath(pts, degree, ts) ==
  LET knot == uniformKnotVector(Len(pts), degree)
  IN  Array([k \in 1..Len(ts) |-> evalBSpline(pts, degree, RMin(ts[k], One), knot)])

\* ------------------------------------- arc-length table (part_000, Alus)
\* buildArcLengthTable(curve, samples): dists[i] is the distance of the points
\* at (i-1)/samples and i/samples
RECURSIVE buildArcLengthTable(_)
buildArcLengthTable(dists) ==
  IF dists = <<>> THEN [length |-> Zero, sTable |-> <<Zero>>]
  ELSE LET before == buildArcLengthTable(SubSeq(dists, 1, Len(dists) - 1))
           length == RAdd(before.length, dists[Len(dists)])
       IN  [length |-> length, sTable |-> Append(before.sTable, length)]

\* the while loop of uByArcLength from (lo, hi): the final lo and the number of
\* passes; the loop counts as not ended after more passes than
\* the table has entries
RECURSIVE BinarySearch(_, _, _, _, _)
BinarySearch(sTable, s, lo, hi, passes) ==
  IF ~(lo < hi) THEN [lo |-> lo, passes |-> passes, ended |-> TRUE]
  ELSE IF passes > Len(sTable) THEN [lo |-> lo, passes |-> passes, ended |-> FALSE]
  ELSE LET mid == (lo + hi) \div 2
       IN  IF RLt(sTable[mid + 1], s)
           THEN BinarySearch(sTable, s, mid + 1, hi, passes + 1)
           ELSE BinarySearch(sTable, s, lo, mid, passes + 1)

\* mutant: the division by s1 - s0 without Math.max(1e-6, ...)
uByArcLengthUnguarded(targetS, length, sTable) ==
  LET samples == Len(sTable) - 1
      s == RMax(Zero, RMin(length, targetS))
      found == BinarySearch(sTable, s, 0, samples, 0)
      idx == IF 1 > found.lo THEN 1 ELSE found.lo
      s0 == sTable[idx]
      s1 == sTable[idx + 1]
      t == RDiv(RSub(s, s0), RSub(s1, s0))
  IN  [u |-> RDiv(RAdd(Num(idx - 1), t), Num(samples)), s |-> s, idx |-> idx,
       passes |-> found.passes, ended |-> found.ended]

\* uByArcLength: the returned u, with the clamped s, the index idx and the
\* passes of the loop
uByArcLength(targetS, length, sTable) ==
  LET samples == Len(sTable) - 1
      s == RMax(Zero, RMin(length, targetS))
      found == BinarySearch(sTable, s, 0, samples, 0)
      idx == IF 1 > found.lo THEN 1 ELSE found.lo
      s0 == sTable[idx]
      s1 == sTable[idx + 1]
      t == RDiv(RSub(s, s0), RMax(Rat(1, 1000000), RSub(s1, s0)))
  IN  [u |-> RDiv(RAdd(Num(idx - 1), t), Num(samples)), s |-> s, idx |-> idx,
       passes |-> found.passes, ended |-> found.ended]

\* ------------------------------------------- RevolutionSurface (part_000)
\* An angle is q quarter turns plus m times the angle alpha whose cosine is
\* 3/5 and whose sine is 4/5: the cosine and sine of every such angle are
\* rational, so a rotation is computed exactly.
Angle(q, m) == [q |-> q, m |-> m]

\* angle / subdivisions (the arguments are drawn so that the division is exact)
AngleDiv(angle, n) == [q |-> angle.q \div n, m |-> angle.m \div n]

\* i * angleStep
AngleMul(i, a) == [q |-> i * a.q, m |-> i * a.m]

RECURSIVE CisAlpha(_)
CisAlpha(m) ==
  IF m = 0 THEN [c |-> One, s |-> Zero]
  ELSE LET p == CisAlpha(m - 1)
       IN  [c |-> RSub(RMul(p.c, Rat(3, 5)), RMul(p.s, Rat(4, 5))),
            s |-> RAdd(RMul(p.s, Rat(3, 5)), RMul(p.c, Rat(4, 5)))]

\* Math.cos(theta) and Math.sin(theta), as c and s
Cis(theta) ==
  LET p == CisAlpha(theta.m)
      k == theta.q % 4
  IN  CASE k = 0 -> p
        [] k = 1 -> [c |-> RNeg(p.s), s |-> p.c]
        [] k = 2 -> [c |-> RNeg(p.c), s |-> RNeg(p.s)]
        [] k = 3 -> [c |-> p.s, s |-> RNeg(p.c)]

Vec(x, y, z) == [x |-> x, y |-> y, z |-> z]

VSub(a, b) == Vec(RSub(a.x, b.x), RSub(a.y, b.y), RSub(a.z, b.z))

VAdd(a, b) == Vec(RAdd(a.x, b.x), RAdd(a.y, b.y), RAdd(a.z, b.z))

Cross(u, v) ==
  Vec(RSub(RMul(u.y, v.z), RMul(u.z, v.y)),
      RSub(RMul(u.z, v.x), RMul(u.x, v.z)),
      RSub(RMul(u.x, v.y), RMul(u.y, v.x)))

\* the rotation of one profile point, read as the wrong axis
RotatePointSwapped(point, axis, cosTheta, sinTheta) ==
  IF axis = "x" THEN Vec(RMul(point.x, cosTheta), point.y, RMul(point.x, sinTheta))
  ELSE IF axis = "y" THEN Vec(point.x, RMul(point.y, cosTheta), RMul(point.y, sinTheta))
  ELSE Vec(RMul(point.x, cosTheta), RMul(point.x, sinTheta), point.y)

\* the body of the inner vertex loop: one profile point rotated by theta
RotatePoint(point, axis, cosTheta, sinTheta) ==
  IF axis = "y" THEN Vec(RMul(point.x, cosTheta), point.y, RMul(point.x, sinTheta))
  ELSE IF axis = "x" THEN Vec(point.x, RMul(point.y, cosTheta), RMul(point.y, sinTheta))
  ELSE Vec(RMul(point.x, cosTheta), RMul(point.x, sinTheta), point.y)

\* the vertices pushed by one pass of the outer vertex loop
Ring(profile, axis, theta) ==
  LET cosTheta == Cis(theta).c
      sinTheta == Cis(theta).s
  IN  Array([j \in 1..Len(profile) |-> RotatePoint(profile[j], axis, cosTheta, sinTheta)])

\* the vertex loop from ring i on, pushing onto vs (in every loop below, the
\* array a pass leaves is computed before the next pass starts)
RECURSIVE PushRings(_, _, _, _, _, _)
PushRings(vs, profile, axis, angleStep, subdivisions, i) ==
  IF i > subdivisions THEN vs
  ELSE CHOOSE out \in
         {PushRings(pushed, profile, axis, angleStep, subdivisions, i + 1) :
            pushed \in {vs \o Ring(profile, axis, AngleMul(i, angleStep))}} : TRUE

\* a cell that pushes only its first triangle
CellOneFace(pointsPerRing, i, j) ==
  << <<i * pointsPerRing + j, i * pointsPerRing + j + pointsPerRing,
       i * pointsPerRing + j + 1>> >>

\* the two triangles of one cell, wound the other way
CellFacesFlipped(pointsPerRing, i, j) ==
  << <<i * pointsPerRing + j, i * pointsPerRing + j + 1,
       i * pointsPerRing + j + pointsPerRing>>,
     <<i * pointsPerRing + j + pointsPerRing, i * pointsPerRing + j + 1,
       i * pointsPerRing + j + pointsPerRing + 1>> >>

\* the two triangles of one cell
CellFaces(pointsPerRing, i, j) ==
  LET a == i * pointsPerRing + j
      b == a + pointsPerRing
      c == a + 1
      d == b + 1
  IN  << <<a, b, c>>, <<b, d, c>> >>

\* the inner face loop of ring i from cell j on, pushing onto fs
RECURSIVE PushCells(_, _, _, _)
PushCells(fs, pointsPerRing, i, j) ==
  IF j >= pointsPerRing - 1 THEN fs
  ELSE CHOOSE out \in
         {PushCells(pushed, pointsPerRing, i, j + 1) :
            pushed \in {fs \o CellFaces(pointsPerRing, i, j)}} : TRUE

\* the face loop from ring i on, pushing onto fs
RECURSIVE PushFaces(_, _, _, _)
PushFaces(fs, pointsPerRing, subdivisions, i) ==
  IF i >= subdivisions THEN fs
  ELSE CHOOSE out \in
         {PushFaces(pushed, pointsPerRing, subdivisions, i + 1) :
            pushed \in {PushCells(fs, pointsPerRing, i, 0)}} : TRUE

\* this.vertices[idx]
At(arr, idx) == arr[idx + 1]

\* the unnormalized normal of a face: (v1 - v0) x (v2 - v0)
FaceNormal(vs, face) ==
  LET v0 == At(vs, face[1])
      v1 == At(vs, face[2])
      v2 == At(vs, face[3])
  IN  Cross(VSub(v1, v0), VSub(v2, v0))

\* for (const idx of face) this.normals[idx] += normal, from position k of the face on
RECURSIVE AddToCorners(_, _, _, _)
AddToCorners(ns, face, normal, k) ==
  IF k > Len(face) THEN ns
  ELSE CHOOSE out \in
         {AddToCorners(added, face, normal, k + 1) :
            added \in {[ns EXCEPT ![face[k] + 1] = VAdd(@, normal)]}} : TRUE

\* the face loop of calculateNormals from face k on
RECURSIVE Accumulate(_, _, _, _)
Accumulate(ns, vs, fs, k) ==
  IF k > Len(fs) THEN ns
  ELSE CHOOSE out \in
         {Accumulate(AddToCorners(ns, fs[k], normal, 1), vs, fs, k + 1) :
            normal \in {FaceNormal(vs, fs[k])}} : TRUE

\* Math.sqrt(n.x * n.x + n.y * n.y + n.z * n.z) > 0
LengthPositive(n) == n.x.n # 0 \/ n.y.n # 0 \/ n.z.n # 0

\* A normal {x, y, z} is held as the vector it was before it was divided and
\* what it was divided by: len = "1" is the vector itself, len = "length" is
\* the vector divided by its own Euclidean length (a square root, which is
\* irrational in general).

\* the normalization without its guard: 0/0 for a zero vector
NormalizeUnguarded(n) == [x |-> n.x, y |-> n.y, z |-> n.z, len |-> "length"]

\* if (length > 0) { n.x /= length; n.y /= length; n.z /= length; }
Normalize(n) ==
  IF LengthPositive(n) THEN [x |-> n.x, y |-> n.y, z |-> n.z, len |-> "length"]
  ELSE [x |-> n.x, y |-> n.y, z |-> n.z, len |-> "1"]

calculateNormals(vs, fs) ==
  LET zero == Array([i \in 1..Len(vs) |-> Vec(Zero, Zero, Zero)])
      sums == Accumulate(zero, vs, fs, 1)
  IN  Array([i \in 1..Len(sums) |-> Normalize(sums[i])])

Mesh(vs, ns, fs) == [vertices |-> vs, normals |-> ns, faces |-> fs]

EmptyMesh == Mesh(<<>>, <<>>, <<>>)

\* generate without the final call of calculateNormals
generateNoNormals(mesh, profile, axis, angle, subdivisions) ==
  IF Len(profile) < 2 THEN mesh
  ELSE LET angleStep == AngleDiv(angle, subdivisions)
           vs == PushRings(<<>>, profile, axis, angleStep, subdivisions, 0)
           fs == PushFaces(<<>>, Len(profile), subdivisions, 0)
       IN  Mesh(vs, <<>>, fs)

\* generate without the reset of the three arrays
generateAppending(mesh, profile, axis, angle, subdivisions) ==
  IF Len(profile) < 2 THEN mesh
  ELSE LET angleStep == AngleDiv(angle, subdivisions)
           vs == PushRings(mesh.vertices, profile, axis, angleStep, subdivisions, 0)
           fs == PushFaces(mesh.faces, Len(profile), subdivisions, 0)
       IN  Mesh(vs, calculateNormals(vs, fs), fs)

\* generate with the early return only for an empty profile
generateFromOnePoint(mesh, profile, axis, angle, subdivisions) ==
  IF Len(profile) < 1 THEN mesh
  ELSE LET angleStep == AngleDiv(angle, subdivisions)
           vs == PushRings(<<>>, profile, axis, angleStep, subdivisions, 0)
           fs == PushFaces(<<>>, Len(profile), subdivisions, 0)
       IN  Mesh(vs, calculateNormals(vs, fs), fs)

\* generate(profile, axis, angle, subdivisions) on an instance holding mesh
generate(mesh, profile, axis, angle, subdivisions) ==
  IF Len(profile) < 2 THEN mesh
  ELSE LET reset == EmptyMesh
           angleStep == AngleDiv(angle, subdivisions)
           vs == PushRings(reset.vertices, profile, axis, angleStep, subdivisions, 0)
           fs == PushFaces(reset.faces, Len(profile), subdivisions, 0)
       IN  Mesh(vs, calculateNormals(vs, fs), fs)

\* x.toFixed(6): the decimal text of a number, as the number it was made from
Fixed6(x) == [toFixed |-> 6, of |-> x]

\* one component of a normal
Component(n, k) == [value |-> IF k = "x" THEN n.x ELSE IF k = "y" THEN n.y ELSE n.z,
                    over |-> n.len]

\* A text is the sequence of its lines and a line the sequence of its
\* space-separated words; the empty line is <<>>.
VertexLine(v) == <<"v", Fixed6(v.x), Fixed6(v.y), Fixed6(v.z)>>

NormalLine(n) ==
  <<"vn", Fixed6(Component(n, "x")), Fixed6(Component(n, "y")), Fixed6(Component(n, "z"))>>

\* a//a : vertex index and normal index of one corner
Corner(vi, ni) == [v |-> vi, vn |-> ni]

\* the f line with the indices as stored (0-based)
FaceLineZeroBased(f) == <<"f", Corner(f[1], f[1]), Corner(f[2], f[2]), Corner(f[3], f[3])>>

FaceLine(f) ==
  <<"f", Corner(f[1] + 1, f[1] + 1), Corner(f[2] + 1, f[2] + 1), Corner(f[3] + 1, f[3] + 1)>>

\* exportOBJ with the header written from the wrong array
exportOBJHeaderSwapped(mesh) ==
  << <<"#", "Surface", "of", "Revolution">>,
     <<"#", "Vertices:", Len(mesh.faces)>>,
     <<"#", "Faces:", Len(mesh.vertices)>>,
     <<>> >>
  \o Array([i \in 1..Len(mesh.vertices) |-> VertexLine(mesh.vertices[i])])
  \o << <<>> >>
  \o Array([i \in 1..Len(mesh.normals) |-> NormalLine(mesh.normals[i])])
  \o << <<>> >>
  \o Array([i \in 1..Len(mesh.faces) |-> FaceLine(mesh.faces[i])])

exportOBJ(mesh) ==
  << <<"#", "Surface", "of", "Revolution">>,
     <<"#", "Vertices:", Len(mesh.vertices)>>,
     <<"#", "Faces:", Len(mesh.faces)>>,
     <<>> >>
  \o Array([i \in 1..Len(mesh.vertices) |-> VertexLine(mesh.vertices[i])])
  \o << <<>> >>
  \o Array([i \in 1..Len(mesh.normals) |-> NormalLine(mesh.normals[i])])
  \o << <<>> >>
  \o Array([i \in 1..Len(mesh.faces) |-> FaceLine(mesh.faces[i])])

StlVertexLine(v) == <<"vertex", Fixed6(v.x), Fixed6(v.y), Fixed6(v.z)>>

\* a facet whose normal is read from the per-vertex normals
FacetFromVertexNormal(mesh, face) ==
  LET n == At(mesh.normals, face[1])
  IN  << <<"facet", "normal", Fixed6(Component(n, "x")), Fixed6(Component(n, "y")),
           Fixed6(Component(n, "z"))>>,
         <<"outer", "loop">>,
         StlVertexLine(At(mesh.vertices, face[1])),
         StlVertexLine(At(mesh.vertices, face[2])),
         StlVertexLine(At(mesh.vertices, face[3])),
         <<"endloop">>,
         <<"endfacet">> >>

\* the seven lines exportSTL writes for one face
Facet(mesh, face) ==
  LET n == Normalize(FaceNormal(mesh.vertices, face))
  IN  << <<"facet", "normal", Fixed6(Component(n, "x")), Fixed6(Component(n, "y")),
           Fixed6(Component(n, "z"))>>,
         <<"outer", "loop">>,
         StlVertexLine(At(mesh.vertices, face[1])),
         StlVertexLine(At(mesh.vertices, face[2])),
         StlVertexLine(At(mesh.vertices, face[3])),
         <<"endloop">>,
         <<"endfacet">> >>

\* the face loop of exportSTL from face k on, appending to stl
RECURSIVE AppendFacets(_, _, _)
AppendFacets(stl, mesh, k) ==
  IF k > Len(mesh.faces) THEN stl
  ELSE CHOOSE out \in
         {AppendFacets(appended, mesh, k + 1) :
            appended \in {stl \o Facet(mesh, mesh.faces[k])}} : TRUE

exportSTL(mesh) ==
  AppendFacets(<< <<"solid", "RevolutionSurface">> >>, mesh, 1)
  \o << <<"endsolid", "RevolutionSurface">> >>

\* ------------------------------------------------ objects and references
\* A heap is a sequence of objects, an object's reference is its index. An
\* array is [items |-> the references of its elements]; a point is its record.
\* The heap of a caller that holds the list points: the point objects, then
\* the array
HeapOf(points) == points \o <<[items |-> Array([i \in 1..Len(points) |-> i])]>>

\* the values of the elements of the array at ref
Deref(h, ref) == Array([i \in 1..Len(h[ref].items) |-> h[h[ref].items[i]]])

\* const arr = [] followed by arr.push({...}) of each of the values, or
\* values.map(...): new objects and a new array of them
NewArray(h, values) ==
  [heap |-> h \o values
              \o <<[items |-> Array([i \in 1..Len(values) |-> Len(h) + i])]>>,
   ref |-> Len(h) + Len(values) + 1]

\* deCasteljau on the array at ref: the heap afterwards and the reference
\* returned
RECURSIVE deCasteljauOn(_, _, _)
deCasteljauOn(h, ref, t) ==
  IF Len(h[ref].items) = 1 THEN [heap |-> h, ref |-> h[ref].items[1]]
  ELSE CHOOSE out \in {deCasteljauOn(newPoints.heap, newPoints.ref, t) :
                         newPoints \in {NewArray(h, DeCasteljauStep(Deref(h, ref), t))}} :
         TRUE

\* generateBezier: the loop from sample i on, refs being the elements of curve
RECURSIVE generateBezierOn(_, _, _, _, _)
generateBezierOn(h, ref, resolution, i, refs) ==
  IF Len(h[ref].items) < 2 \/ i > resolution
  THEN [heap |-> Append(h, [items |-> refs]), ref |-> Len(h) + 1]
  ELSE CHOOSE out \in {generateBezierOn(point.heap, ref, resolution, i + 1,
                                        Append(refs, point.ref)) :
                         point \in {deCasteljauOn(h, ref, Rat(i, resolution))}} :
         TRUE

\* generateBSpline pushes a new object for each sample it keeps
generateCurveOn(h, ref, type, degree, resolution) ==
  IF type = "bezier" THEN generateBezierOn(h, ref, resolution, 0, <<>>)
  ELSE IF type = "bspline"
       THEN NewArray(h, generateBSpline(Deref(h, ref), degree, resolution))
  ELSE NewArray(h, <<>>)

\* mutant: let pts = ctrl
MapAlias(h, ref) == [heap |-> h, ref |-> ref]

\* ctrl.map(p => ({x: p.x * p.w, y: p.y * p.w, w: p.w}))
MapWeighted(h, ref) ==
  NewArray(h, Array([i \in 1..Len(h[ref].items) |->
                       LET p == h[h[ref].items[i]]
                       IN  [x |-> RMul(p.x, p.w), y |-> RMul(p.y, p.w), w |-> p.w]]))

\* the rounds r..n of deCasteljauRational on pts: pts[i] = {...} stores a new
\* object in element i of the array
RECURSIVE RationalRoundsOn(_, _, _, _)
RationalRoundsOn(h, pts, r, t) ==
  IF r > Len(h[pts].items) - 1 THEN h
  ELSE LET k == Len(h[pts].items) - r
           next == RationalRound(Deref(h, pts), r, t)
       IN  CHOOSE out \in {RationalRoundsOn(stored, pts, r + 1, t) :
                             stored \in {[h EXCEPT ![pts].items =
                                            Array([i \in 1..Len(@) |->
                                               IF i <= k THEN Len(h) + i ELSE @[i]])]
                                          \o SubSeq(next, 1, k)}} :
             TRUE

\* deCasteljauRational on the array at ref; res is a new object
deCasteljauRationalOn(h, ref, t) ==
  LET pts == MapWeighted(h, ref)
      done == RationalRoundsOn(pts.heap, pts.ref, 1, t)
      first == done[done[pts.ref].items[1]]
  IN  [heap |-> Append(done, [x |-> RDiv(first.x, first.w), y |-> RDiv(first.y, first.w)]),
       ref |-> Len(done) + 1]

\* RevolutionSurface.generate on the profile at ref: this.vertices,
\* this.normals and this.faces are new arrays of new objects
generateOn(h, ref, axis, angle, subdivisions) ==
  LET m == generate(EmptyMesh, Deref(h, ref), axis, angle, subdivisions)
      vs == NewArray(h, m.vertices)
      ns == NewArray(vs.heap, m.normals)
  IN  IF Len(h[ref].items) < 2 THEN [heap |-> h, ref |-> ref]
      ELSE NewArray(ns.heap, m.faces)

\* ------------------------------------------------------------------- state
VARIABLES
  call,          \* the last call of a geometry function: its name and arguments
  ret,           \* what that call returned (or that it threw)
  points,        \* curve editor: control points {x,y,w}
  mode,          \* curve editor: "bezier" | "spline"
  step,          \* curve editor: sampling step
  splineDegree,  \* curve editor: value of the degree <select>
  sampled,       \* curve editor: the values of t the last draw evaluated the curve at
  vertices,      \* RevolutionSurface: this.vertices
  normals,       \* RevolutionSurface: this.normals
  faces,         \* RevolutionSurface: this.faces
  meshCall,      \* the last call of a RevolutionSurface method and its arguments
  text,          \* the text the last export returned, as its lines
  selectedIndex, \* curve editor: index of the selected point, or null
  dragging,      \* curve editor: {index, offsetX, offsetY} of the drag
  event,         \* curve editor: the last handler run and the field values it read
  controlPoints, \* revolution editor: this.controlPoints, an array that may have holes
  selectedPoint, \* revolution editor: this.selectedPoint
  curve,         \* revolution editor: this.curve
  dom,           \* revolution editor: the values of the controls of the page
  speedy,        \* Speedy: x, y, direction, captured, captureTime
  captureMode,   \* Speedy: the capture mode is on
  animationRunning, \* Speedy: the animation is not paused
  lastTime,      \* Speedy: 0, or 1 for the timestamp of a frame after the first
  frame          \* Speedy: the last listener or frame run, with its click and deltaTime

vars ==
  <<call, ret, points, mode, step, splineDegree, sampled,
    vertices, normals, faces, meshCall, text, selectedIndex, dragging, event,
    controlPoints, selectedPoint, curve, dom,
    speedy, captureMode, animationRunning, lastTime, frame>>

engineVars == <<call, ret>>

editorVars == <<points, mode, step, splineDegree, sampled>>

meshVars == <<vertices, normals, faces, meshCall, text>>

pointerVars == <<selectedIndex, dragging, event>>

studioVars == <<controlPoints, selectedPoint, curve, dom>>

speedyVars == <<speedy, captureMode, animationRunning, lastTime, frame>>

\* ------------------------------------------------------------------ inputs
\* lists of {x,y} points; a Bezier or B-Spline point is linear in each
\* coordinate of the control points, and the lists over two points that differ
\* in both coordinates span every coordinate pattern
XYSet == {Pt(2, 1), Pt(1, 3)}

XYLists(maxLen) == UNION {[1..n -> XYSet] : n \in 0..maxLen}

\* weights of a list of {x,y,w} points: all 1, or 1, 2, 3, ...
WeightProfiles == {"unit", "ramp"}

WithWeights(xy, profile) ==
  Array([i \in 1..Len(xy) |->
     [x |-> xy[i].x, y |-> xy[i].y, w |-> IF profile = "unit" THEN One ELSE Num(i)]])

WLists(maxLen) == {WithWeights(xy, wp) : xy \in XYLists(maxLen), wp \in WeightProfiles}

\* control polygons of the B-Spline evaluators: the two zigzags of each length
\* (the basis values depend on the number of points only)
Zigzag(n, first) ==
  Array([i \in 1..n |-> IF (i + first) % 2 = 0 THEN Pt(2, 1) ELSE Pt(1, 3)])

SplineLists(maxLen) == {Zigzag(n, first) : n \in 0..maxLen, first \in {0, 1}}

TValues == {Rat(i, TGrid) : i \in 0..TGrid}

Degrees == 0..MaxDegree

Resolutions == 1..MaxRes

CurveTypes == {"bezier", "bspline", "nurbs"}

Steps == {Rat(p, q) : p \in 1..MaxStepDen, q \in 1..MaxStepDen} \cap
         {r \in [n : 1..MaxStepDen, d : 1..MaxStepDen] : r.n <= r.d}

NoPoint == [x |-> Zero, y |-> Zero]

NoCall ==
  [op |-> "none", points |-> <<>>, t |-> Zero, n |-> 0, degree |-> 0,
   resolution |-> 0, type |-> ""]

NoRet == [point |-> NoPoint, curve |-> <<>>, knots |-> <<>>, trace |-> <<>>, thrown |-> FALSE]

\* ------------------------------------------------- calls of the geometry API
\* The geometry functions keep no state between calls, so a behaviour is one
\* call: a function is applied to arguments drawn from the input sets while
\* no call has been recorded yet.
Fresh == call.op = "none"

\* deCasteljau(points, t); an empty list recurses without end (RangeError)
CallDeCasteljau ==
  Fresh /\ \E ctrl \in XYLists(MaxPoints), t \in TValues :
    /\ call' = [NoCall EXCEPT !.op = "deCasteljau", !.points = ctrl, !.t = t]
    /\ ret' = IF Len(ctrl) = 0 THEN [NoRet EXCEPT !.thrown = TRUE]
              ELSE [NoRet EXCEPT !.point = deCasteljau(ctrl, t)]
    /\ UNCHANGED <<editorVars, meshVars, pointerVars, studioVars, speedyVars>>

CallGenerateBezier ==
  Fresh /\ \E ctrl \in XYLists(MaxPoints), res \in Resolutions :
    /\ call' = [NoCall EXCEPT !.op = "generateBezier", !.points = ctrl, !.resolution = res]
    /\ ret' = [NoRet EXCEPT !.curve = generateBezier(ctrl, res)]
    /\ UNCHANGED <<editorVars, meshVars, pointerVars, studioVars, speedyVars>>

CallGenerateKnotVector ==
  Fresh /\ \E n \in 0..MaxSplinePoints, d \in Degrees :
    /\ call' = [NoCall EXCEPT !.op = "generateKnotVector", !.n = n, !.degree = d]
    /\ ret' = [NoRet EXCEPT !.knots = generateKnotVector(n, d)]
    /\ UNCHANGED <<editorVars, meshVars, pointerVars, studioVars, speedyVars>>

CallGenerateBSpline ==
  Fresh /\ \E ctrl \in SplineLists(MaxSplinePoints), d \in Degrees, res \in Resolutions :
    /\ call' = [NoCall EXCEPT !.op = "generateBSpline", !.points = ctrl,
                              !.degree = d, !.resolution = res]
    /\ LET samples == BSplineSamples(ctrl, d, res)
       IN  ret' = [NoRet EXCEPT !.curve = KeptPoints(samples),
                                !.trace = samples,
                                !.knots = IF Len(ctrl) < d + 1 THEN <<>>
                                          ELSE generateKnotVector(Len(ctrl), d)]
    /\ UNCHANGED <<editorVars, meshVars, pointerVars, studioVars, speedyVars>>

CallGenerateCurve ==
  Fresh /\ \E ctrl \in SplineLists(MaxSplinePoints), ty \in CurveTypes, d \in Degrees,
     res \in Resolutions :
    /\ call' = [NoCall EXCEPT !.op = "generateCurve", !.points = ctrl, !.type = ty,
                              !.degree = d, !.resolution = res]
    /\ ret' = [NoRet EXCEPT !.curve = generateCurve(ctrl, ty, d, res)]
    /\ UNCHANGED <<editorVars, meshVars, pointerVars, studioVars, speedyVars>>

\* computeBezierAt: deCasteljauRational(points, t); pts[0] of an empty list is
\* undefined and reading its x throws (TypeError)
CallDeCasteljauRational ==
  Fresh /\ \E ctrl \in WLists(MaxPoints), t \in TValues :
    /\ call' = [NoCall EXCEPT !.op = "deCasteljauRational", !.points = ctrl, !.t = t]
    /\ ret' = IF Len(ctrl) = 0 THEN [NoRet EXCEPT !.thrown = TRUE]
              ELSE [NoRet EXCEPT !.point = deCasteljauRational(ctrl, t)]
    /\ UNCHANGED <<editorVars, meshVars, pointerVars, studioVars, speedyVars>>

CallUniformKnotVector ==
  Fresh /\ \E n \in 0..MaxSplinePoints, d \in Degrees :
    /\ call' = [NoCall EXCEPT !.op = "uniformKnotVector", !.n = n, !.degree = d]
    /\ ret' = [NoRet EXCEPT !.knots = uniformKnotVector(n, d)]
    /\ UNCHANGED <<editorVars, meshVars, pointerVars, studioVars, speedyVars>>

\* computeBSplineAt: evalBSpline(points, deg, t, uniformKnotVector(points.length, deg))
CallEvalBSpline ==
  Fresh /\ \E xy \in SplineLists(MaxSplinePoints), d \in Degrees, t \in TValues :
    /\ LET ctrl == WithWeights(xy, "unit")
           knot == uniformKnotVector(Len(ctrl), d)
       IN  /\ call' = [NoCall EXCEPT !.op = "evalBSpline", !.points = ctrl,
                                     !.degree = d, !.t = t]
           /\ ret' = [NoRet EXCEPT !.point = evalBSpline(ctrl, d, t, knot), !.knots = knot]
    /\ UNCHANGED <<editorVars, meshVars, pointerVars, studioVars, speedyVars>>

\* ------------------------------------------------ calls of RevolutionSurface
\* profile points: one off every axis and one on the y axis (radius 0 when
\* the axis of revolution is y or z)
ProfilePoints == {Pt(2, 1), Pt(0, 3)}

Profiles == UNION {[1..n -> ProfilePoints] : n \in 0..MaxProfile}

Axes == {"x", "y", "z"}

\* the angle between two rings: a quarter turn, or alpha
StepAngles == {Angle(1, 0), Angle(0, 1)}

Subdivisions == 1..MaxSubdiv

NoMeshCall ==
  [op |-> "none", profile |-> <<>>, axis |-> "", angle |-> Angle(0, 0),
   subdivisions |-> 0, onEmpty |-> TRUE]

\* the mesh held by the instance
ThisMesh == Mesh(vertices, normals, faces)

\* the default value of the parameter subdivisions of generate
DefaultSubdivisions == 32

\* the argument lists of generate: every profile long enough to revolve with
\* every axis, step angle and number of subdivisions; a profile too short to
\* revolve is passed alone, the other parameters taking their defaults
\* (axis = "y", angle = 360, subdivisions = 32)
GenerateArgs ==
  {[profile |-> p, axis |-> ax, angle |-> AngleMul(n, st), subdivisions |-> n] :
     p \in {q \in Profiles : Len(q) >= 2}, ax \in Axes, st \in StepAngles,
     n \in Subdivisions}
  \cup
  {[profile |-> p, axis |-> "y", angle |-> Angle(4, 0),
    subdivisions |-> DefaultSubdivisions] : p \in {q \in Profiles : Len(q) < 2}}

CallGenerate ==
  \E args \in GenerateArgs :
  \E m \in {generate(ThisMesh, args.profile, args.axis, args.angle, args.subdivisions)} :
    /\ vertices' = m.vertices
    /\ normals' = m.normals
    /\ faces' = m.faces
    /\ meshCall' = [op |-> "generate", profile |-> args.profile, axis |-> args.axis,
                    angle |-> args.angle, subdivisions |-> args.subdivisions,
                    onEmpty |-> (vertices = <<>>)]
    /\ text' = <<>>
    /\ UNCHANGED <<engineVars, editorVars, pointerVars, studioVars, speedyVars>>

CallExportOBJ ==
  /\ text' = exportOBJ(ThisMesh)
  /\ meshCall' = [NoMeshCall EXCEPT !.op = "exportOBJ"]
  /\ UNCHANGED <<vertices, normals, faces, engineVars, editorVars, pointerVars, studioVars, speedyVars>>

CallExportSTL ==
  /\ text' = exportSTL(ThisMesh)
  /\ meshCall' = [NoMeshCall EXCEPT !.op = "exportSTL"]
  /\ UNCHANGED <<vertices, normals, faces, engineVars, editorVars, pointerVars, studioVars, speedyVars>>

\* ------------------------------------------------ calls of uByArcLength
\* distances of consecutive samples of the curve: none, below 1e-6, and two
\* ordinary ones
Gaps == {Zero, Rat(1, 2000000), One, Num(2)}

\* the tables buildArcLengthTable returns for a curve of positive length
ArcTables ==
  {arc \in {buildArcLengthTable(dists) :
              dists \in UNION {[1..n -> Gaps] : n \in 1..MaxSamples}} :
     RLt(Zero, arc.length)}

\* targets below 0, beyond the length, on every entry of the table and halfway
\* between consecutive entries
ArcTargets(arc) ==
  {Num(-1), RAdd(arc.length, One)}
    \cup {arc.sTable[i] : i \in 1..Len(arc.sTable)}
    \cup {RDiv(RAdd(arc.sTable[i], arc.sTable[i + 1]), Num(2)) :
            i \in 1..(Len(arc.sTable) - 1)}

CallUByArcLength ==
  /\ Fresh
  /\ \E arc \in ArcTables :
       \E targetS \in ArcTargets(arc) :
         /\ call' = [op |-> "uByArcLength", targetS |-> targetS,
                     length |-> arc.length, sTable |-> arc.sTable]
         /\ ret' = uByArcLength(targetS, arc.length, arc.sTable)
  /\ UNCHANGED <<editorVars, meshVars, pointerVars, studioVars, speedyVars>>

\* ----------------------------------------- calls on a list the caller holds
\* one call of a function of the claim on the heap of a caller that holds the
\* list: the record of the call keeps the heap before, ret is the heap after
\* and the reference returned
CallOnHeap ==
  /\ Fresh
  /\ \E xy \in XYLists(MaxProfile) \ {<<>>}, wp \in WeightProfiles,
        op \in {"deCasteljau", "deCasteljauRational", "generateBezier",
                "generateBSpline", "generateCurve", "generate"},
        t \in {Zero, Rat(1, 2)}, resolution \in 1..2, type \in CurveTypes :
       \E h \in {HeapOf(IF op = "deCasteljauRational" THEN WithWeights(xy, wp) ELSE xy)} :
         /\ call' = [op |-> op, points |-> xy, t |-> t, resolution |-> resolution,
                     weights |-> wp, type |-> type, heap |-> h, ref |-> Len(h)]
         /\ ret' = CASE op = "deCasteljau" -> deCasteljauOn(h, Len(h), t)
                     [] op = "deCasteljauRational" -> deCasteljauRationalOn(h, Len(h), t)
                     [] op = "generateBezier" ->
                          generateBezierOn(h, Len(h), resolution, 0, <<>>)
                     [] op = "generateBSpline" ->
                          generateCurveOn(h, Len(h), "bspline", resolution, resolution)
                     [] op = "generateCurve" ->
                          generateCurveOn(h, Len(h), type, 1, resolution)
                     [] op = "generate" ->
                          generateOn(h, Len(h), "y", Angle(4, 0), resolution)
  /\ UNCHANGED <<editorVars, meshVars, pointerVars, studioVars, speedyVars>>

\* ------------------------------------------------------ curve editor handlers
CanvasW == 100

CanvasH == 100

SeedPoints ==
  <<[x |-> Rat(CanvasW * 2, 10), y |-> Rat(CanvasH * 6, 10), w |-> One],
    [x |-> Rat(CanvasW * 4, 10), y |-> Rat(CanvasH * 2, 10), w |-> One],
    [x |-> Rat(CanvasW * 6, 10), y |-> Rat(CanvasH * 8, 10), w |-> One],
    [x |-> Rat(CanvasW * 8, 10), y |-> Rat(CanvasH * 3, 10), w |-> One]>>

\* draw(): the canvas is cleared and the curve of the current mode is drawn
Redraw(pts, md, stp) == sampled' = draw(pts, md, stp)

\* null, for an index of the points
null == -1

NoEvent == [name |-> "none", x |-> Zero, y |-> Zero, w |-> Zero]

Handled(name) == event' = [NoEvent EXCEPT !.name = name]

setPoints ==
  \E arr \in WLists(MaxEditorPoints) :
    /\ points' = arr
    /\ Redraw(arr, mode, step)
    /\ Handled("setPoints")
    /\ UNCHANGED <<selectedIndex, dragging, mode, step, splineDegree, engineVars, meshVars, studioVars, speedyVars>>

stepInput ==
  \E s \in Steps :
    /\ step' = s
    /\ Redraw(points, mode, s)
    /\ UNCHANGED <<points, mode, splineDegree, engineVars, meshVars, pointerVars, studioVars, speedyVars>>

tabBezier ==
  /\ mode' = "bezier"
  /\ Redraw(points, "bezier", step)
  /\ UNCHANGED <<points, step, splineDegree, engineVars, meshVars, pointerVars, studioVars, speedyVars>>

tabSpline ==
  /\ mode' = "spline"
  /\ Redraw(points, "spline", step)
  /\ UNCHANGED <<points, step, splineDegree, engineVars, meshVars, pointerVars, studioVars, speedyVars>>

\* the user picks a degree in the <select>; no listener redraws
selectDegree ==
  \E d \in Degrees :
    /\ splineDegree' = d
    /\ UNCHANGED <<points, mode, step, sampled, engineVars, meshVars, pointerVars, studioVars, speedyVars>>

\* --------------------------------------- curve editor: pointer and buttons
\* canvas positions of the mouse: on the first seed point, and free
Clicks == {Pt(20, 60), Pt(50, 50)}

\* what Number(selX.value), Number(selY.value), Number(selW.value) can be:
\* three numbers with a weight below 0.001, or one of them not finite
FieldValues ==
  {[x |-> Num(50), y |-> Num(50), w |-> Num(-1)],
   [x |-> NonFinite, y |-> Num(50), w |-> Num(2)],
   [x |-> Num(50), y |-> NonFinite, w |-> Num(2)],
   [x |-> Num(50), y |-> Num(50), w |-> NonFinite]}

\* the square of the distance of a and b
Dist2(a, b) ==
  LET dx == RSub(a.x, b.x)
      dy == RSub(a.y, b.y)
  IN  RAdd(RMul(dx, dx), RMul(dy, dy))

\* canvas mousedown: start dragging the first point within 10 of the mouse,
\* or push a new point of weight 1 and select it
mousedown ==
  \E c \in Clicks :
    \E hits \in {{i \in 1..Len(points) : RLe(Dist2(c, points[i]), Num(10 * 10))}} :
      /\ IF hits # {}
         THEN \E i \in {k \in hits : \A j \in hits : k <= j} :
                /\ dragging' = [index |-> i - 1,
                                offsetX |-> RSub(points[i].x, c.x),
                                offsetY |-> RSub(points[i].y, c.y)]
                /\ selectedIndex' = i - 1
                /\ points' = points
         ELSE /\ Len(points) < MaxCurvePoints
              /\ points' = Append(points, [x |-> c.x, y |-> c.y, w |-> One])
              /\ selectedIndex' = Len(points)
              /\ dragging' = dragging
      /\ Redraw(points', mode, step)
      /\ Handled("mousedown")
      /\ UNCHANGED <<mode, step, splineDegree, engineVars, meshVars, studioVars, speedyVars>>

\* window mousemove: the dragged point follows the mouse; the write to
\* points[dragging.index] throws when there is no such point
mousemove ==
  /\ dragging.index # null
  /\ \E c \in Clicks :
       IF dragging.index < Len(points)
       THEN /\ points' = [points EXCEPT
                            ![dragging.index + 1].x = RAdd(c.x, dragging.offsetX),
                            ![dragging.index + 1].y = RAdd(c.y, dragging.offsetY)]
            /\ Redraw(points', mode, step)
       ELSE UNCHANGED <<points, sampled>>
  /\ Handled("mousemove")
  /\ UNCHANGED <<selectedIndex, dragging, mode, step, splineDegree, engineVars, meshVars, studioVars, speedyVars>>

\* window mouseup
mouseup ==
  /\ dragging' = [dragging EXCEPT !.index = null]
  /\ Handled("mouseup")
  /\ UNCHANGED <<selectedIndex, editorVars, engineVars, meshVars, studioVars, speedyVars>>

\* updatePt without the isFinite test
updatePtUnchecked(pts, i, x, y, w) ==
  IF i >= Len(pts) THEN pts
  ELSE [pts EXCEPT ![i + 1] = [x |-> x, y |-> y, w |-> RMax(Rat(1, 1000), w)]]

\* the points after the update button writes x, y, w into point i
updatePoint(pts, i, x, y, w) ==
  IF ~(IsFinite(x) /\ IsFinite(y) /\ IsFinite(w)) \/ i >= Len(pts) THEN pts
  ELSE [pts EXCEPT ![i + 1] = [x |-> x, y |-> y, w |-> RMax(Rat(1, 1000), w)]]

\* click on the update button
updatePt ==
  /\ selectedIndex # null
  /\ \E f \in FieldValues :
       /\ points' = updatePoint(points, selectedIndex, f.x, f.y, f.w)
       /\ event' = [name |-> "updatePt", x |-> f.x, y |-> f.y, w |-> f.w]
  /\ Redraw(points', mode, step)
  /\ UNCHANGED <<selectedIndex, dragging, mode, step, splineDegree, engineVars, meshVars, studioVars, speedyVars>>

\* points.splice(selectedIndex, 1)
Splice(pts, i) == Array([k \in 1..(Len(pts) - (IF i < Len(pts) THEN 1 ELSE 0)) |->
                           IF k <= i THEN pts[k] ELSE pts[k + 1]])

\* click on the remove button
removePt ==
  /\ selectedIndex # null
  /\ points' = Splice(points, selectedIndex)
  /\ selectedIndex' = null
  /\ Redraw(points', mode, step)
  /\ Handled("removePt")
  /\ UNCHANGED <<dragging, mode, step, splineDegree, engineVars, meshVars, studioVars, speedyVars>>

\* click on the clear button
clearBtn ==
  /\ points' = <<>>
  /\ selectedIndex' = null
  /\ Redraw(<<>>, mode, step)
  /\ Handled("clearBtn")
  /\ UNCHANGED <<dragging, mode, step, splineDegree, engineVars, meshVars, studioVars, speedyVars>>

\* window keydown of Delete or Backspace
keydown ==
  /\ selectedIndex # null
  /\ points' = Splice(points, selectedIndex)
  /\ selectedIndex' = null
  /\ Redraw(points', mode, step)
  /\ Handled("keydown")
  /\ UNCHANGED <<dragging, mode, step, splineDegree, engineVars, meshVars, studioVars, speedyVars>>

\* ------------------------------------- revolution editor (Visualization)
\* width and height of canvas2D
Canvas2DSize == 100

\* positions of the mouse over canvas2D, more than 8 apart
Spots == {Pt(10, 10), Pt(50, 50)}

\* the values the controls of the page take; the first is the initial one
DomValues ==
  [curveType |-> <<"bezier", "bspline">>, degree |-> <<2, 1>>,
   curveResolution |-> <<2, 1>>, revolutionAxis |-> <<"y", "x">>,
   revolutionAngle |-> <<360, 180>>, angularSubdivisions |-> <<2, 1>>]

\* a JavaScript array: its length and its elements by index; an index below
\* the length that is not in the domain of items is a hole
JsArray(length, items) == [length |-> length, items |-> items]

IsDense(arr) == DOMAIN arr.items = 0..(arr.length - 1)

\* the elements in order, of an array with no holes
Elements(arr) == Array([i \in 1..arr.length |-> arr.items[i - 1]])

\* arr[k] = p; arr.push(p) is arr[arr.length] = p
Assign(arr, k, p) ==
  JsArray(IF k + 1 > arr.length THEN k + 1 ELSE arr.length,
          [i \in DOMAIN arr.items \cup {k} |-> IF i = k THEN p ELSE arr.items[i]])

\* arr.splice(index, 1)
SpliceOne(arr, index) ==
  IF index >= arr.length THEN arr
  ELSE LET from(i) == IF i < index THEN i ELSE i + 1
       IN  JsArray(arr.length - 1,
                   [i \in {j \in 0..(arr.length - 2) : from(j) \in DOMAIN arr.items} |->
                      arr.items[from(i)]])

\* mutant: the curve is kept when fewer than 2 control points are left
updateCurveKeeping(cp, cur, d) ==
  IF cp.length < 2 \/ ~IsDense(cp) THEN cur
  ELSE generateCurve(Elements(cp), d.curveType, d.degree, d.curveResolution)

\* this.curve after updateCurve(): generateBezier, and generateBSpline on at
\* least degree + 1 points, read the x of every element, which throws on a
\* hole; the catch leaves this.curve as it was
updateCurve(cp, cur, d) ==
  IF cp.length < 2 THEN <<>>
  ELSE IF IsDense(cp)
       THEN generateCurve(Elements(cp), d.curveType, d.degree, d.curveResolution)
  ELSE IF d.curveType = "bezier" \/ cp.length >= d.degree + 1 THEN cur
  ELSE <<>>

\* canvas2D mousedown: the first point nearer than 8 is selected, else a
\* point is pushed; reading the x of a hole throws and the catch ends the
\* handler
onCanvas2DMouseDown ==
  /\ \E at \in Spots :
       \E stops \in {{i \in 0..(controlPoints.length - 1) :
                        \/ i \notin DOMAIN controlPoints.items
                        \/ RLt(Dist2(controlPoints.items[i], at), Num(8 * 8))}} :
         IF stops # {}
         THEN \E i \in {k \in stops : \A j \in stops : k <= j} :
                /\ selectedPoint' = IF i \in DOMAIN controlPoints.items
                                    THEN i ELSE selectedPoint
                /\ UNCHANGED <<controlPoints, curve>>
         ELSE /\ controlPoints.length < MaxControlPoints
              /\ controlPoints' = Assign(controlPoints, controlPoints.length, at)
              /\ curve' = updateCurve(controlPoints', curve, dom)
              /\ UNCHANGED selectedPoint
  /\ UNCHANGED <<dom, engineVars, editorVars, meshVars, pointerVars, speedyVars>>

\* canvas2D mousemove: the selected element is replaced by the mouse position
onCanvas2DMouseMove ==
  /\ selectedPoint # null
  /\ \E at \in Spots :
       /\ controlPoints' = Assign(controlPoints, selectedPoint, at)
       /\ curve' = updateCurve(controlPoints', curve, dom)
  /\ UNCHANGED <<selectedPoint, dom, engineVars, editorVars, meshVars, pointerVars, speedyVars>>

\* canvas2D mouseup; a button released outside the canvas is not delivered
onCanvas2DMouseUp ==
  /\ selectedPoint' = null
  /\ UNCHANGED <<controlPoints, curve, dom, engineVars, editorVars, meshVars, pointerVars, speedyVars>>

clearPoints ==
  /\ controlPoints' = JsArray(0, <<>>)
  /\ curve' = updateCurve(controlPoints', <<>>, dom)
  /\ UNCHANGED <<selectedPoint, dom, engineVars, editorVars, meshVars, pointerVars, speedyVars>>

\* the remove button of an entry of the point list; the list has one entry
\* for each element of controlPoints
removePoint ==
  /\ \E index \in DOMAIN controlPoints.items :
       /\ controlPoints' = SpliceOne(controlPoints, index)
       /\ curve' = updateCurve(controlPoints', curve, dom)
  /\ UNCHANGED <<selectedPoint, dom, engineVars, editorVars, meshVars, pointerVars, speedyVars>>

\* change of curveType, input of degree or curveResolution: updateCurve()
onCurveControl ==
  /\ \E id \in {"curveType", "degree", "curveResolution"}, k \in 1..2 :
       dom' = [dom EXCEPT ![id] = DomValues[id][k]]
  /\ curve' = updateCurve(controlPoints, curve, dom')
  /\ UNCHANGED <<controlPoints, selectedPoint, engineVars, editorVars, meshVars, pointerVars, speedyVars>>

\* the user sets revolutionAxis, revolutionAngle or angularSubdivisions; the
\* listeners rewrite a label at most
onSurfaceControl ==
  /\ \E id \in {"revolutionAxis", "revolutionAngle", "angularSubdivisions"}, k \in 1..2 :
       dom' = [dom EXCEPT ![id] = DomValues[id][k]]
  /\ UNCHANGED <<controlPoints, selectedPoint, curve, engineVars, editorVars, meshVars,
                 pointerVars, speedyVars>>

\* the profile generateSurface and the JSON reader derive from a curve
Profile(cur) ==
  Array([i \in 1..Len(cur) |->
     [x |-> RSub(RMul(RDiv(cur[i].x, Num(Canvas2DSize)), Num(4)), Num(2)),
      y |-> RAdd(RNeg(RMul(RDiv(cur[i].y, Num(Canvas2DSize)), Num(4))), Num(2))]])

\* click on generateSurface; a curve of fewer than 2 points is refused
generateSurface ==
  /\ Len(curve) >= 2
  /\ \E m \in {generate(ThisMesh, Profile(curve), dom.revolutionAxis,
                        Angle(dom.revolutionAngle \div 90, 0),
                        dom.angularSubdivisions)} :
       /\ vertices' = m.vertices
       /\ normals' = m.normals
       /\ faces' = m.faces
  /\ UNCHANGED <<meshCall, text, studioVars, engineVars, editorVars, pointerVars, speedyVars>>

\* the data exportFile("json") serialises
exportFile ==
  [controlPoints |-> controlPoints, curveType |-> dom.curveType, degree |-> dom.degree,
   revolutionAxis |-> dom.revolutionAxis, revolutionAngle |-> dom.revolutionAngle,
   subdivisions |-> dom.angularSubdivisions,
   vertices |-> vertices, normals |-> normals, faces |-> faces]

\* new Visualization()
StudioInit ==
  /\ controlPoints = JsArray(0, <<>>)
  /\ selectedPoint = null
  /\ curve = <<>>
  /\ dom = [id \in DOMAIN DomValues |-> DomValues[id][1]]

\* -------------------------------------------- Speedy (ligeirinho/script.js)
\* speedy.width / 2 and speedy.height / 2
HalfWidth == 20

HalfHeight == 30

\* the places of Speedy and the values of its direction that the model tells
\* apart; the run towards random targets is any move among them
Places == {<<800, 600>>, <<300, 200>>}

\* clicks in scene coordinates: on the first place, on the right and the lower
\* edge of Speedy's box there, just inside its corner, and far away
ClickPoints == {<<800, 600>>, <<820, 600>>, <<800, 630>>, <<819, 629>>, <<100, 100>>}

\* timestamp - lastTime of a frame after the second, in milliseconds
DeltaTimes == {1000, 1500}

NoFrame == [handler |-> "none", clickX |-> 0, clickY |-> 0, deltaTime |-> 0]

\* mutant: released as soon as captureTime reaches 3000
updateSpeedyAtThreshold(sp, deltaTime) ==
  IF sp.captured
  THEN {IF sp.captureTime + deltaTime >= 3000
        THEN [sp EXCEPT !.captured = FALSE, !.captureTime = 0]
        ELSE [sp EXCEPT !.captureTime = sp.captureTime + deltaTime]}
  ELSE {[sp EXCEPT !.x = place[1], !.y = place[2], !.direction = d] :
          place \in Places, d \in {0, 1}}

\* the values of speedy after updateSpeedy(deltaTime)
updateSpeedy(sp, deltaTime) ==
  IF sp.captured
  THEN {IF sp.captureTime + deltaTime > 3000
        THEN [sp EXCEPT !.captured = FALSE, !.captureTime = 0]
        ELSE [sp EXCEPT !.captureTime = sp.captureTime + deltaTime]}
  ELSE {[sp EXCEPT !.x = place[1], !.y = place[2], !.direction = d] :
          place \in Places, d \in {0, 1}}

\* a frame: deltaTime is 0 while lastTime is 0; a paused frame updates lastTime
\* only
animate ==
  /\ \E deltaTime \in IF lastTime = 0 THEN {0} ELSE DeltaTimes :
       /\ frame' = [NoFrame EXCEPT !.handler = "animate", !.deltaTime = deltaTime]
       /\ IF animationRunning
          THEN speedy' \in updateSpeedy(speedy, deltaTime)
          ELSE speedy' = speedy
  /\ lastTime' = 1
  /\ UNCHANGED <<captureMode, animationRunning, engineVars, editorVars, meshVars,
                 pointerVars, studioVars>>

\* click on toggleAnimation
toggleAnimationBtn ==
  /\ animationRunning' = ~animationRunning
  /\ frame' = [NoFrame EXCEPT !.handler = "toggleAnimation"]
  /\ UNCHANGED <<speedy, captureMode, lastTime, engineVars, editorVars, meshVars,
                 pointerVars, studioVars>>

\* click on captureMode
captureModeBtn ==
  /\ captureMode' = ~captureMode
  /\ frame' = [NoFrame EXCEPT !.handler = "captureMode"]
  /\ UNCHANGED <<speedy, animationRunning, lastTime, engineVars, editorVars, meshVars,
                 pointerVars, studioVars>>

\* click on the canvas
canvasClick ==
  /\ \E click \in ClickPoints :
       /\ frame' = [NoFrame EXCEPT !.handler = "click", !.clickX = click[1],
                                   !.clickY = click[2]]
       /\ speedy' = IF /\ captureMode
                       /\ ~speedy.captured
                       /\ Abs(click[1] - speedy.x) < HalfWidth
                       /\ Abs(click[2] - speedy.y) < HalfHeight
                    THEN [speedy EXCEPT !.captured = TRUE]
                    ELSE speedy
  /\ UNCHANGED <<captureMode, animationRunning, lastTime, engineVars, editorVars,
                 meshVars, pointerVars, studioVars>>

\* the script as loaded, before animate(0); Speedy is at the first place and
\* Math.random() gave the first direction
SpeedyIdle ==
  /\ speedy = [x |-> 800, y |-> 600, direction |-> 0, captured |-> FALSE,
               captureTime |-> 0]
  /\ captureMode = FALSE
  /\ animationRunning = TRUE
  /\ lastTime = 0
  /\ frame = NoFrame

\* ---------------------------------------------------------- specifications
EditorInit ==
  /\ points = SeedPoints
  /\ mode = "bezier"
  /\ step \in {s \in Steps : s.n = 1}
  /\ splineDegree \in Degrees
  /\ sampled = draw(SeedPoints, "bezier", step)

EditorIdle ==
  /\ points = SeedPoints
  /\ mode = "bezier"
  /\ step = One
  /\ splineDegree = MaxDegree
  /\ sampled = draw(SeedPoints, "bezier", One)

\* new RevolutionSurface(): three empty arrays
MeshInit ==
  /\ vertices = <<>>
  /\ normals = <<>>
  /\ faces = <<>>
  /\ meshCall = NoMeshCall
  /\ text = <<>>

\* the module-level state of the curve editor's pointer handling as declared
UiInit ==
  /\ selectedIndex = null
  /\ dragging = [index |-> null, offsetX |-> Zero, offsetY |-> Zero]
  /\ event = NoEvent

\* the geometry functions, called with arguments drawn from the input sets
Init == call = NoCall /\ ret = NoRet /\ EditorIdle /\ MeshInit /\ UiInit /\ StudioInit /\ SpeedyIdle

Next ==
  \/ CallDeCasteljau
  \/ CallGenerateBezier
  \/ CallGenerateKnotVector
  \/ CallGenerateBSpline
  \/ CallGenerateCurve
  \/ CallDeCasteljauRational
  \/ CallUniformKnotVector
  \/ CallEvalBSpline

Spec == Init /\ [][Next]_vars

\* the curve editor: its handlers acting on the module-level state
InitEditor == call = NoCall /\ ret = NoRet /\ EditorInit /\ MeshInit /\ UiInit /\ StudioInit /\ SpeedyIdle

NextEditor ==
  \/ setPoints
  \/ stepInput
  \/ tabBezier
  \/ tabSpline
  \/ selectDegree

SpecEditor == InitEditor /\ [][NextEditor]_vars

\* Speedy under its frames and the clicks of the user
SpecSpeedy ==
  Init /\ [][animate \/ toggleAnimationBtn \/ captureModeBtn \/ canvasClick]_vars

\* requestAnimationFrame(animate) is called at the end of every frame, so a
\* frame that can change the state is eventually run
FairSpeedy == SpecSpeedy /\ WF_vars(animate)

\* one call of a function on a list that the caller still holds
SpecFrame == Init /\ [][CallOnHeap]_vars

\* uByArcLength, called once on a table and a target
SpecArc == Init /\ [][CallUByArcLength]_vars

\* the curve editor's points under the mouse, the keyboard and the buttons
NextCanvas ==
  \/ mousedown
  \/ mousemove
  \/ mouseup
  \/ updatePt
  \/ removePt
  \/ clearBtn
  \/ keydown

SpecCanvas == Init /\ [][NextCanvas]_vars

\* the handlers that add, remove or replace points, or change selectedIndex or
\* dragging, interleaved with calls of CurveEditorAPI.setPoints; the update
\* button changes none of the indices and not the number of points
NextPointer ==
  \/ mousedown
  \/ mousemove
  \/ mouseup
  \/ removePt
  \/ clearBtn
  \/ keydown
  \/ setPoints

SpecPointer == Init /\ [][NextPointer]_vars

\* the revolution editor's profile under its mouse handlers, its buttons and
\* the controls of the curve
SpecSketch ==
  Init /\ [][\/ onCanvas2DMouseDown
             \/ onCanvas2DMouseMove
             \/ onCanvas2DMouseUp
             \/ clearPoints
             \/ removePoint
             \/ onCurveControl]_vars

\* the revolution editor's surface: points are added and cleared, the controls
\* are set and the surface is generated
SpecStudio ==
  Init /\ [][\/ onCanvas2DMouseDown
             \/ clearPoints
             \/ onCurveControl
             \/ onSurfaceControl
             \/ generateSurface]_vars

\* one RevolutionSurface instance: generate and the two exports, in any order
InitMesh == call = NoCall /\ ret = NoRet /\ EditorIdle /\ MeshInit /\ UiInit /\ StudioInit /\ SpeedyIdle

NextMesh ==
  \/ CallGenerate
  \/ CallExportOBJ
  \/ CallExportSTL

SpecMesh == InitMesh /\ [][NextMesh]_vars


\* ===================================================================== claims
\* generateBSpline was called with enough control points for its degree
BSplineCalled ==
  /\ call.op = "generateBSpline"
  /\ Len(call.points) >= call.degree + 1

\* the end parameter knots[n] of that call
EndKnot == Knot(ret.knots, Len(call.points))

\* C1: with knots = generateKnotVector(n, d) and n >= d+1, the basis values
\* bSplineBasis(i, d, t, knots), i in 0..n-1, sum to 1 at the end parameter
\* t = knots[n].
C1_EndSumIsOne ==
  BSplineCalled =>
    \A k \in 1..Len(ret.trace) :
      ret.trace[k].t = EndKnot => ret.trace[k].sumBasis = One

\* C2: with knots = generateKnotVector(n, d) and n >= d+1, the basis values sum
\* to 1 at every t with knots[d] <= t < knots[n].
C2_PartitionOfUnity ==
  BSplineCalled =>
    \A k \in 1..Len(ret.trace) :
      (RLe(Knot(ret.knots, call.degree), ret.trace[k].t) /\ RLt(ret.trace[k].t, EndKnot))
        => ret.trace[k].sumBasis = One

\* a cubic over five control points sampled at t = 1/2, inside the first of
\* its two knot spans, where four basis functions are non-zero
C2_Witness ==
  /\ BSplineCalled
  /\ call.degree = 3
  /\ Len(call.points) = 5
  /\ \E k \in 1..Len(ret.trace) :
       ret.trace[k].t = Rat(1, 2) /\ ret.trace[k].sumBasis = One

\* C3: for n >= degree+1 control points and resolution N >= 1, generateBSpline
\* returns N+1 points, the i-th being the sample at
\* t = knots[degree] + (i/N)*(knots[n]-knots[degree]); the sample at t = knots[n]
\* is the last point of the curve.
C3_AllSamplesReturned ==
  BSplineCalled =>
    /\ Len(ret.trace) = call.resolution + 1
    /\ Len(ret.curve) = call.resolution + 1
    /\ \A k \in 1..Len(ret.curve) : ret.curve[k] = PointOf(ret.trace[k])
    /\ ret.trace[Len(ret.trace)].t = EndKnot

\* C4: in the [0,1] convention, for nCtrl >= degree+1 control points and
\* knot = uniformKnotVector(nCtrl, degree), evalBSpline returns ctrl[0] at t = 0
\* and ctrl[nCtrl-1] at t = 1.
C4_EndpointsInterpolated ==
  (call.op = "evalBSpline" /\ Len(call.points) >= call.degree + 1) =>
    /\ call.t = Zero => ret.point = XY(call.points)[1]
    /\ call.t = One => ret.point = XY(call.points)[Len(call.points)]

\* a De Casteljau evaluator was called on at least two control points
BezierCalled ==
  /\ call.op \in {"deCasteljau", "deCasteljauRational"}
  /\ Len(call.points) >= 2

\* C5: on at least two control points, deCasteljau and (the weights being
\* positive) deCasteljauRational return the first control point at t = 0 and the
\* last control point at t = 1.
C5_BezierEndpoints ==
  BezierCalled =>
    /\ ~ret.thrown
    /\ call.t = Zero => ret.point = XY(call.points)[1]
    /\ call.t = One => ret.point = XY(call.points)[Len(call.points)]

\* the rational evaluator at t = 1 on four points of weights 1, 2, 3, 4
C5_Witness ==
  /\ call.op = "deCasteljauRational"
  /\ Len(call.points) = 4
  /\ call.points[4].w = Num(4)
  /\ call.t = One
  /\ ret.point = XY(call.points)[4]

RECURSIVE Binomial(_, _)
Binomial(n, k) ==
  IF k = 0 \/ k = n THEN 1 ELSE Binomial(n - 1, k - 1) + Binomial(n - 1, k)

RECURSIVE RPow(_, _)
RPow(p, k) == IF k = 0 THEN One ELSE RMul(p, RPow(p, k - 1))

\* C(n,i) (1-t)^(n-i) t^i
BernsteinWeight(n, i, t) ==
  RMul(Num(Binomial(n, i)), RMul(RPow(RSub(One, t), n - i), RPow(t, i)))

\* the closed form  sum_i C(n,i) (1-t)^(n-i) t^i * points[i]
Bernstein(pts, t) ==
  LET n == Len(pts) - 1
  IN  [x |-> SumSeq(Array([j \in 1..(n + 1) |-> RMul(BernsteinWeight(n, j - 1, t), pts[j].x)])),
       y |-> SumSeq(Array([j \in 1..(n + 1) |-> RMul(BernsteinWeight(n, j - 1, t), pts[j].y)]))]

\* C6: for 2 to 6 control points and t in {0, 0.1, ..., 1}, deCasteljau(points, t)
\* equals the closed-form Bernstein evaluation, coordinate by coordinate.
C6_MatchesBernstein ==
  (call.op = "deCasteljau" /\ Len(call.points) >= 2 /\ Len(call.points) <= 6) =>
    ret.point = Bernstein(call.points, call.t)

\* a quintic (six control points, not all equal) evaluated at t = 0.3
C6_Witness ==
  /\ call.op = "deCasteljau"
  /\ Len(call.points) = 6
  /\ call.points[1] # call.points[4]
  /\ call.t = Rat(3, 10)
  /\ ret.point = Bernstein(call.points, call.t)

\* every weight of the list is 1
UnitWeights(ctrl) == \A i \in 1..Len(ctrl) : ctrl[i].w = One

\* C7: when all weights are 1, deCasteljauRational returns the point that
\* deCasteljau returns on the same (x,y) points, for every t.
C7_UnitWeightsAgree ==
  (call.op = "deCasteljauRational" /\ Len(call.points) >= 1 /\ UnitWeights(call.points)) =>
    /\ ~ret.thrown
    /\ ret.point = deCasteljau(XY(call.points), call.t)

\* five unit-weight points, not all equal, evaluated at t = 0.7
C7_Witness ==
  /\ call.op = "deCasteljauRational"
  /\ Len(call.points) = 5
  /\ UnitWeights(call.points)
  /\ call.points[1] # call.points[2]
  /\ call.t = Rat(7, 10)
  /\ ret.point = deCasteljau(XY(call.points), call.t)

\* a knot-vector builder was called for n >= degree+1 control points
KnotsCalled ==
  /\ call.op \in {"generateKnotVector", "uniformKnotVector"}
  /\ call.n >= call.degree + 1

\* the largest knot of the convention: n - degree, or 1
MaxKnotOf(op, n, degree) == IF op = "generateKnotVector" THEN Num(n - degree) ELSE One

\* C8: for n >= degree+1 both builders return n+degree+1 knots, non-decreasing,
\* the first degree+1 equal to 0, the last degree+1 equal to the largest knot
\* (n-degree, respectively 1), and the knots from index degree to index n
\* evenly spaced.
C8_OpenUniformKnots ==
  KnotsCalled =>
    LET n == call.n
        d == call.degree
        k == ret.knots
        top == MaxKnotOf(call.op, n, d)
    IN  /\ Len(k) = n + d + 1
        /\ \A i \in 0..(n + d - 1) : RLe(Knot(k, i), Knot(k, i + 1))
        /\ \A i \in 0..d : Knot(k, i) = Zero
        /\ \A i \in n..(n + d) : Knot(k, i) = top
        /\ \A i \in d..(n - 1) :
             RSub(Knot(k, i + 1), Knot(k, i)) = RDiv(top, Num(n - d))

\* the [0,1] builder for five control points of degree 2: interior knots 1/3, 2/3
C8_Witness ==
  /\ call.op = "uniformKnotVector"
  /\ call.n = 5
  /\ call.degree = 2
  /\ ret.knots = <<Zero, Zero, Zero, Rat(1, 3), Rat(2, 3), One, One, One>>

\* the input of generateCurve is insufficient for its type
Insufficient ==
  \/ call.type = "bezier" /\ Len(call.points) < 2
  \/ call.type = "bspline" /\ Len(call.points) < call.degree + 1
  \/ call.type \notin {"bezier", "bspline"}

\* C9: generateCurve throws nothing and returns the empty list for type
\* 'bezier' on fewer than 2 points, for type 'bspline' on fewer than degree+1
\* points, and for any other type.
C9_InsufficientIsEmpty ==
  (call.op = "generateCurve" /\ Insufficient) => (~ret.thrown /\ ret.curve = <<>>)

\* a single control point handed to the Bezier branch
C9_Witness ==
  /\ call.op = "generateCurve"
  /\ call.type = "bezier"
  /\ Len(call.points) = 1
  /\ ret.curve = <<>>

\* the smallest integer >= 1/p, for p > 0
CeilInv(p) == (p.d + p.n - 1) \div p.n

\* the largest integer <= 1/p, for p > 0
FloorInv(p) == p.d \div p.n

\* 0, p, 2p, ..., (count-1) p
Multiples(p, count) == Array([k \in 1..count |-> RMul(Num(k - 1), p)])

\* C10 as stated: for 0 < step <= 1 the draw visits 0, step, 2 step, ... in
\* increasing order, takes ceil(1/step)+1 samples and takes the last at t = 1.
C10_CeilSamplesEndAtOne ==
  Len(points) >= 2 =>
    /\ sampled = Multiples(step, Len(sampled))
    /\ Len(sampled) = CeilInv(step) + 1
    /\ sampled[Len(sampled)] = One

\* C10 amended: for 0 < step <= 1 the draw visits 0, step, 2 step, ... in
\* increasing order while t <= 1 + 1e-9: floor(1/step)+1 samples, the last at
\* floor(1/step)*step; that is ceil(1/step)+1 samples ending at t = 1 exactly
\* when 1/step is an integer, and otherwise ceil(1/step) samples ending before 1.
C10_FloorSamples ==
  Len(points) >= 2 =>
    /\ sampled = Multiples(step, FloorInv(step) + 1)
    /\ \A k \in 1..(Len(sampled) - 1) : RLt(sampled[k], sampled[k + 1])
    /\ IF step.n = 1
       THEN Len(sampled) = CeilInv(step) + 1 /\ sampled[Len(sampled)] = One
       ELSE Len(sampled) = CeilInv(step) /\ RLt(sampled[Len(sampled)], One)

\* a spline drawn with step 2/5: three samples, the last at 4/5
C10_Witness ==
  /\ Len(points) >= 2
  /\ mode = "spline"
  /\ step = Rat(2, 5)
  /\ sampled = <<Zero, Rat(2, 5), Rat(4, 5)>>

\* ------------------------------------------------- RevolutionSurface claims
\* the last call was generate with a profile long enough to revolve
Revolved == meshCall.op = "generate" /\ Len(meshCall.profile) >= 2

\* C11: after generate with a profile of P >= 2 points and N >= 1
\* subdivisions the mesh has exactly (N+1)*P vertices and 2*N*(P-1) faces.
C11_MeshCounts ==
  Revolved =>
    LET P == Len(meshCall.profile)
        N == meshCall.subdivisions
    IN  /\ Len(vertices) = (N + 1) * P
        /\ Len(faces) = 2 * N * (P - 1)

C11_Witness ==
  /\ Revolved
  /\ Len(meshCall.profile) = MaxProfile
  /\ meshCall.subdivisions = MaxSubdiv
  /\ Len(vertices) = (MaxSubdiv + 1) * MaxProfile
  /\ Len(faces) = 2 * MaxSubdiv * (MaxProfile - 1)

\* C12: in every state reached by generate calls, short profiles included,
\* there is one normal per vertex and every index of every face is an integer
\* in 0..vertices.length-1.
C12_MeshWellFormed ==
  /\ Len(normals) = Len(vertices)
  /\ \A k \in 1..Len(faces) :
       /\ Len(faces[k]) = 3
       /\ \A c \in 1..3 : faces[k][c] \in 0..(Len(vertices) - 1)

\* a short profile passed to an instance that already holds a mesh
C12_Witness ==
  /\ meshCall.op = "generate"
  /\ Len(meshCall.profile) < 2
  /\ ~meshCall.onEmpty
  /\ Len(faces) > 0
  /\ Len(normals) = Len(vertices)

\* the vertex of ring i made from profile point j (both counted from 0)
RingVertex(i, j) == vertices[i * Len(meshCall.profile) + j + 1]

\* C13: after generate, the vertex at index i*P+j is profile[j] rotated about
\* the axis by theta = i * angle / N: (p.x cos, p.y, p.x sin) about y,
\* (p.x, p.y cos, p.y sin) about x, (p.x cos, p.x sin, p.y) about z; ring 0 is
\* the unrotated profile and the coordinate along the axis is the same in
\* every ring.
C13_VerticesAreRotatedProfile ==
  Revolved =>
    \A i \in 0..meshCall.subdivisions, j \in 0..(Len(meshCall.profile) - 1) :
      LET p == meshCall.profile[j + 1]
          theta == AngleMul(i, AngleDiv(meshCall.angle, meshCall.subdivisions))
          c == Cis(theta).c
          s == Cis(theta).s
          v == RingVertex(i, j)
          v0 == RingVertex(0, j)
      IN  /\ meshCall.axis = "y" =>
               /\ v = Vec(RMul(p.x, c), p.y, RMul(p.x, s))
               /\ v0 = Vec(p.x, p.y, Zero)
               /\ v.y = v0.y
          /\ meshCall.axis = "x" =>
               /\ v = Vec(p.x, RMul(p.y, c), RMul(p.y, s))
               /\ v0 = Vec(p.x, p.y, Zero)
               /\ v.x = v0.x
          /\ meshCall.axis = "z" =>
               /\ v = Vec(RMul(p.x, c), RMul(p.x, s), p.y)
               /\ v0 = Vec(p.x, Zero, p.y)
               /\ v.z = v0.z
          /\ RAdd(RMul(c, c), RMul(s, s)) = One

\* Pt(2, 1) turned twice by alpha about the x axis: cos = -7/25, sin = 24/25
C13_Witness ==
  /\ Revolved
  /\ meshCall.axis = "x"
  /\ meshCall.profile[1] = Pt(2, 1)
  /\ meshCall.angle = Angle(0, 2)
  /\ meshCall.subdivisions = 2
  /\ RingVertex(2, 0) = Vec(Num(2), Rat(-7, 25), Rat(24, 25))

\* C14: after generate the face list is exactly, for i = 0..N-1 and then
\* j = 0..P-2, the triangle (a, b, c) followed by (b, d, c), with a = i*P+j,
\* b = a+P, c = a+1, d = b+1, and nothing else.
C14_FacesInOrder ==
  Revolved =>
    LET P == Len(meshCall.profile)
        N == meshCall.subdivisions
    IN  /\ Len(faces) = 2 * N * (P - 1)
        /\ \A i \in 0..(N - 1), j \in 0..(P - 2) :
             LET a == i * P + j
                 b == a + P
                 c == a + 1
                 d == b + 1
                 k == 2 * (i * (P - 1) + j)
             IN  /\ faces[k + 1] = <<a, b, c>>
                 /\ faces[k + 2] = <<b, d, c>>

\* the last cell of the largest mesh: i = MaxSubdiv-1, j = MaxProfile-2
C14_Witness ==
  /\ Revolved
  /\ Len(meshCall.profile) = MaxProfile
  /\ meshCall.subdivisions = MaxSubdiv
  /\ faces[Len(faces)] =
       <<MaxSubdiv * MaxProfile + MaxProfile - 2, (MaxSubdiv + 1) * MaxProfile - 1,
         MaxSubdiv * MaxProfile - 1>>

\* vertex idx (counted from 0) is a corner of some face
Referenced(idx) == \E k \in 1..Len(faces) : \E c \in 1..3 : faces[k][c] = idx

\* the sum, over the corners of faces k.. that are vertex idx, of the
\* unnormalized normal of the face
RECURSIVE CornerSum(_, _)
CornerSum(idx, k) ==
  IF k > Len(faces) THEN Vec(Zero, Zero, Zero)
  ELSE LET rest == CornerSum(idx, k + 1)
           n == FaceNormal(vertices, faces[k])
           times == Cardinality({c \in 1..3 : faces[k][c] = idx})
       IN  IF times = 0 THEN rest
           ELSE Vec(RAdd(RMul(Num(times), n.x), rest.x),
                    RAdd(RMul(Num(times), n.y), rest.y),
                    RAdd(RMul(Num(times), n.z), rest.z))

\* 0/0 in a component
IsNaNNormal(n) == n.len = "length" /\ ~LengthPositive(n)

IsZeroNormal(n) == n = [x |-> Zero, y |-> Zero, z |-> Zero, len |-> "1"]

\* magnitude 1: a non-zero vector divided by its length, or an undivided
\* vector whose squared length is 1
HasMagnitudeOne(n) ==
  \/ n.len = "length" /\ LengthPositive(n)
  \/ n.len = "1" /\ RAdd(RMul(n.x, n.x), RAdd(RMul(n.y, n.y), RMul(n.z, n.z))) = One

\* C15 (as stated): every vertex referenced by a face has a normal of
\* magnitude 1, every unreferenced vertex the zero normal, and no component
\* is NaN.
C15_ReferencedNormalsAreUnit ==
  \A i \in 1..Len(normals) :
    /\ Referenced(i - 1) => HasMagnitudeOne(normals[i])
    /\ ~Referenced(i - 1) => IsZeroNormal(normals[i])
    /\ ~IsNaNNormal(normals[i])

\* C15 (amended): every normal is the sum of the unnormalized normals of the
\* faces at its vertex, divided by its length (magnitude 1) when that sum is
\* not zero and the zero vector when it is, which also happens at referenced
\* vertices; no component is NaN.
C15_NormalsAreUnitOrZero ==
  \A i \in 1..Len(normals) :
    LET sum == CornerSum(i - 1, 1)
    IN  /\ ~IsNaNNormal(normals[i])
        /\ LengthPositive(sum) =>
             /\ normals[i] = NormalizeUnguarded(sum)
             /\ HasMagnitudeOne(normals[i])
        /\ ~LengthPositive(sum) => IsZeroNormal(normals[i])
        /\ ~Referenced(i - 1) => IsZeroNormal(normals[i])

\* a mesh with a unit normal and with a referenced vertex whose normal is zero
C15_Witness ==
  /\ Revolved
  /\ \E i \in 1..Len(normals) : HasMagnitudeOne(normals[i])
  /\ \E i \in 1..Len(normals) : Referenced(i - 1) /\ IsZeroNormal(normals[i])

\* C16: generate with a profile of fewer than 2 points does nothing: the
\* three arrays are after the call exactly what they were before it.
C16_ShortProfileIsNoOp ==
  [][(meshCall'.op = "generate" /\ Len(meshCall'.profile) < 2) =>
       (vertices' = vertices /\ normals' = normals /\ faces' = faces)]_vars

\* a one-point profile passed to an instance holding the largest mesh
C16_Witness ==
  /\ meshCall.op = "generate"
  /\ meshCall.profile = <<Pt(2, 1)>>
  /\ ~meshCall.onEmpty
  /\ Len(vertices) = (MaxSubdiv + 1) * MaxProfile
  /\ Len(faces) = 2 * MaxSubdiv * (MaxProfile - 1)

\* C17: the mesh after generate with a profile of at least 2 points depends
\* only on the four arguments: an instance with any history of earlier calls
\* holds what a new instance holds after the same call.
C17_MeshDependsOnArgumentsOnly ==
  Revolved =>
    ThisMesh = generate(EmptyMesh, meshCall.profile, meshCall.axis, meshCall.angle,
                        meshCall.subdivisions)

\* the smallest mesh, generated on an instance that held another mesh
C17_Witness ==
  /\ Revolved
  /\ ~meshCall.onEmpty
  /\ Len(meshCall.profile) = 2
  /\ meshCall.subdivisions = 1
  /\ Len(vertices) = 4
  /\ Len(faces) = 2

\* ---------------------------------------------------------- export claims
\* the line starts with the word w followed by a space
StartsWith(line, w) == Len(line) > 1 /\ line[1] = w

\* what a reader of the text counts: the lines that start with the word w
CountLines(txt, w) == Cardinality({k \in 1..Len(txt) : StartsWith(txt[k], w)})

IsComment(line) == StartsWith(line, "#")

\* C18: the text returned by exportOBJ has exactly vertices.length lines
\* starting with 'v ', normals.length lines starting with 'vn ' and
\* faces.length lines starting with 'f ', and its header comment states the
\* vertex count and the face count.
C18_ObjCountsRoundTrip ==
  meshCall.op = "exportOBJ" =>
    /\ CountLines(text, "v") = Len(vertices)
    /\ CountLines(text, "vn") = Len(normals)
    /\ CountLines(text, "f") = Len(faces)
    /\ SelectSeq(text, IsComment) =
         << <<"#", "Surface", "of", "Revolution">>,
            <<"#", "Vertices:", CountLines(text, "v")>>,
            <<"#", "Faces:", CountLines(text, "f")>> >>

\* the export of a mesh with more vertices than faces
C18_Witness ==
  /\ meshCall.op = "exportOBJ"
  /\ Len(vertices) = (MaxSubdiv + 1) * 2
  /\ Len(faces) = 2 * MaxSubdiv
  /\ CountLines(text, "v") = (MaxSubdiv + 1) * 2
  /\ CountLines(text, "f") = 2 * MaxSubdiv

\* the first words of the lines of the text that are not empty
FirstWords(txt) ==
  LET lines == SelectSeq(txt, LAMBDA l : Len(l) > 0)
  IN  [k \in 1..Len(lines) |-> lines[k][1]]

\* n times the word w
Repeat(w, n) == [k \in 1..n |-> w]

\* C19: the text returned by exportOBJ is the header, then the 'v' lines in
\* vertex order, then the 'vn' lines in normal order, then the 'f' lines in
\* face order; the line of face (a, b, c) is 'f a+1//a+1 b+1//b+1 c+1//c+1':
\* every index is 1-based, lies in 1..vertices.length, and is the same for the
\* vertex and the normal of a corner.
C19_ObjSectionsAndIndices ==
  meshCall.op = "exportOBJ" =>
    LET V == Len(vertices)
        N == Len(normals)
        F == Len(faces)
        vs == SelectSeq(text, LAMBDA l : StartsWith(l, "v"))
        ns == SelectSeq(text, LAMBDA l : StartsWith(l, "vn"))
        fs == SelectSeq(text, LAMBDA l : StartsWith(l, "f"))
    IN  /\ FirstWords(text) =
             Repeat("#", 3) \o Repeat("v", V) \o Repeat("vn", N) \o Repeat("f", F)
        /\ \A k \in 1..V :
             vs[k] = <<"v", [toFixed |-> 6, of |-> vertices[k].x],
                       [toFixed |-> 6, of |-> vertices[k].y],
                       [toFixed |-> 6, of |-> vertices[k].z]>>
        /\ \A k \in 1..N :
             ns[k] = <<"vn", [toFixed |-> 6, of |-> [value |-> normals[k].x, over |-> normals[k].len]],
                       [toFixed |-> 6, of |-> [value |-> normals[k].y, over |-> normals[k].len]],
                       [toFixed |-> 6, of |-> [value |-> normals[k].z, over |-> normals[k].len]]>>
        /\ \A k \in 1..F :
             /\ Len(fs[k]) = 4
             /\ \A c \in 1..3 :
                  /\ fs[k][c + 1].v = faces[k][c] + 1
                  /\ fs[k][c + 1].vn = fs[k][c + 1].v
                  /\ fs[k][c + 1].v \in 1..V

\* the export of the largest mesh: its last 'f' line names the last vertex
C19_Witness ==
  /\ meshCall.op = "exportOBJ"
  /\ Len(faces) = 2 * MaxSubdiv * (MaxProfile - 1)
  /\ Len(text) = 6 + 2 * (MaxSubdiv + 1) * MaxProfile + Len(faces)
  /\ text[Len(text)][3] = [v |-> Len(vertices), vn |-> Len(vertices)]

\* the normal exportSTL writes for a face: (v1-v0)x(v2-v0), divided by its
\* length unless it is the zero vector
FacetNormalOf(face) ==
  LET c == FaceNormal(vertices, face)
      over == IF c = Vec(Zero, Zero, Zero) THEN "1" ELSE "length"
  IN  <<"facet", "normal", [toFixed |-> 6, of |-> [value |-> c.x, over |-> over]],
        [toFixed |-> 6, of |-> [value |-> c.y, over |-> over]],
        [toFixed |-> 6, of |-> [value |-> c.z, over |-> over]]>>

VertexOf(idx) ==
  <<"vertex", [toFixed |-> 6, of |-> vertices[idx + 1].x],
    [toFixed |-> 6, of |-> vertices[idx + 1].y],
    [toFixed |-> 6, of |-> vertices[idx + 1].z]>>

\* C20: the text returned by exportSTL starts with a 'solid' line, ends with
\* the 'endsolid' line of the same name and holds between them one facet
\* block per face, in face order, listing the three vertices of the face in
\* index order; the facet normal is the normalized cross product
\* (v1-v0)x(v2-v0) of those positions, and 0 0 0 for a degenerate face.
C20_StlFacets ==
  meshCall.op = "exportSTL" =>
    /\ Len(text) = 2 + 7 * Len(faces)
    /\ text[1][1] = "solid"
    /\ text[Len(text)] = <<"endsolid", text[1][2]>>
    /\ \A k \in 1..Len(faces) :
         LET at == 1 + 7 * (k - 1)
         IN  /\ text[at + 1] = FacetNormalOf(faces[k])
             /\ text[at + 2] = <<"outer", "loop">>
             /\ text[at + 3] = VertexOf(faces[k][1])
             /\ text[at + 4] = VertexOf(faces[k][2])
             /\ text[at + 5] = VertexOf(faces[k][3])
             /\ text[at + 6] = <<"endloop">>
             /\ text[at + 7] = <<"endfacet">>

\* an export with a degenerate facet (normal 0 0 0) and a proper one
C20_Witness ==
  /\ meshCall.op = "exportSTL"
  /\ \E k \in 1..Len(faces) :
       /\ FaceNormal(vertices, faces[k]) = Vec(Zero, Zero, Zero)
       /\ text[7 * k - 5][3].of = [value |-> Zero, over |-> "1"]
  /\ \E k \in 1..Len(faces) : text[7 * k - 5][3].of.over = "length"

\* ---------------------------------------------------------------------- C21
\* C21: in the curve editor every control point's weight is a finite number
\* greater than 0 after any sequence of seed, mousedown, drag, update, remove
\* and clear; a point pushed by mousedown has weight 1; the update button
\* stores max(0.001, w) in the selected point, and leaves the points as they
\* were when x, y or w is not a finite number.
C21_WeightsStayPositive ==
  /\ [](\A i \in 1..Len(points) : IsFinite(points[i].w) /\ RLt(Zero, points[i].w))
  /\ [][/\ (event'.name = "mousedown" /\ Len(points') = Len(points) + 1)
             => points'[Len(points')].w = One
        /\ (event'.name = "updatePt" /\ selectedIndex < Len(points))
             => IF IsFinite(event'.x) /\ IsFinite(event'.y) /\ IsFinite(event'.w)
                THEN points'[selectedIndex + 1].w = RMax(Rat(1, 1000), event'.w)
                ELSE points' = points]_vars

\* the update button has stored 0.001 for the weight -1 it read
C21_Witness ==
  /\ event.name = "updatePt"
  /\ event.w = Num(-1)
  /\ IsFinite(event.x) /\ IsFinite(event.y)
  /\ selectedIndex # null
  /\ selectedIndex < Len(points)
  /\ points[selectedIndex + 1].w = Rat(1, 1000)
  /\ Len(points) = MaxCurvePoints

\* ---------------------------------------------------------------------- C28
\* C28: in every state reached by any interleaving of the curve editor's
\* mousedown, mousemove, mouseup, Delete/Backspace, update, remove, clear and
\* setPoints, selectedIndex is null or an index of points and dragging.index
\* is null or an index of points.
C28_IndicesValid ==
  /\ selectedIndex = null \/ selectedIndex \in 0..(Len(points) - 1)
  /\ dragging.index = null \/ dragging.index \in 0..(Len(points) - 1)

\* ---------------------------------------------------------------------- C23
\* the accesses of the calls bSplineBasis(j, degree, t, knots), j = 0..n-1, that
\* generateBSpline has made for its samples
C23_Accesses ==
  {bSplineBasisAccesses(j, call.degree, ret.trace[s].t, ret.knots) :
     j \in 0..(Len(call.points) - 1), s \in 1..Len(ret.trace)}

\* C23: while generateBSpline runs on n >= degree + 1 control points,
\* bSplineBasis never divides by zero and reads no knot outside the knot
\* vector: every knot index used at any depth is in 0..knots.length-1, every
\* divisor is a non-zero number, and the terms whose denominator is zero
\* contribute 0, so every accumulated sample is a finite number.
C23_BasisStaysInsideKnots ==
  (call.op = "generateBSpline" /\ Len(call.points) >= call.degree + 1)
    => /\ \A a \in C23_Accesses :
            /\ a.reads \subseteq 0..(Len(ret.knots) - 1)
            /\ \A q \in a.divisors : IsFinite(q) /\ q # Zero
       /\ \A s \in 1..Len(ret.trace) :
            /\ IsFinite(ret.trace[s].sumBasis)
            /\ IsFinite(ret.trace[s].x) /\ IsFinite(ret.trace[s].y)

\* the longest list at the largest degree: terms were left at 0, the last knot
\* was read and a division was made
C23_Witness ==
  /\ call.op = "generateBSpline"
  /\ Len(call.points) = MaxSplinePoints
  /\ call.degree = MaxDegree
  /\ \E a \in C23_Accesses :
       /\ a.skipped > 0
       /\ Len(ret.knots) - 1 \in a.reads
       /\ a.divisors # {}

\* ---------------------------------------------------------------------- C24
\* C24: in the curve editor's spline mode, whenever points.length is below
\* degree + 1 for the selected degree, drawBSpline evaluates and draws no
\* sample.
C24_NoSplineBelowDegree ==
  (mode = "spline" /\ Len(points) < splineDegree + 1) => sampled = <<>>

\* ---------------------------------------------------------------------- C29
\* C29: under any interleaving of the revolution editor's mousedown,
\* mousemove, mouseup, removePoint and clearPoints, selectedPoint is null or an
\* index of controlPoints, and controlPoints is a dense list with no missing
\* entries.
C29_SelectionValidAndDense ==
  /\ selectedPoint = null \/ selectedPoint \in 0..(controlPoints.length - 1)
  /\ IsDense(controlPoints)

\* ---------------------------------------------------------------------- C30
\* C30: after every completed handler of the revolution editor (add, drag,
\* remove, clear, change of curve type, degree or resolution) the cached curve
\* is empty when controlPoints has fewer than 2 points and otherwise equals
\* generateCurve(controlPoints, type, degree, resolution); on an array with a
\* hole generateCurve returns a value, the empty curve, only for a B-Spline of
\* fewer than degree + 1 points.
C30_CurveNeverStale ==
  \/ controlPoints.length < 2 /\ curve = <<>>
  \/ /\ controlPoints.length >= 2
     /\ IsDense(controlPoints)
     /\ curve = generateCurve(Elements(controlPoints), dom.curveType, dom.degree,
                              dom.curveResolution)
  \/ /\ controlPoints.length >= 2
     /\ ~IsDense(controlPoints)
     /\ dom.curveType = "bspline"
     /\ controlPoints.length < dom.degree + 1
     /\ curve = <<>>

\* ---------------------------------------------------------------------- C25
\* C25: every JSON snapshot exportFile writes is self-consistent: its vertices,
\* normals and faces are the mesh the engine produces from the snapshot's own
\* controlPoints, curveType, degree, revolutionAxis, revolutionAngle and
\* subdivisions (at one of the curve resolutions, which the snapshot does not
\* record), after any sequence of edits, parameter changes and clicks on
\* generateSurface. exportFile writes a snapshot when the surface has
\* vertices.
C25_SnapshotSelfConsistent ==
  vertices # <<>> =>
    \E k \in 1..2 :
      /\ IsDense(exportFile.controlPoints)
      /\ Mesh(exportFile.vertices, exportFile.normals, exportFile.faces)
           = generate(EmptyMesh,
                      Profile(generateCurve(Elements(exportFile.controlPoints),
                                            exportFile.curveType, exportFile.degree,
                                            DomValues.curveResolution[k])),
                      exportFile.revolutionAxis,
                      Angle(exportFile.revolutionAngle \div 90, 0),
                      exportFile.subdivisions)

\* ---------------------------------------------------------------------- C26
\* C26: for every non-decreasing sTable with sTable[0] = 0 and last entry
\* length > 0, and every targetS (clamped to [0, length] as s), the binary
\* search of uByArcLength terminates and the result u is in [0, 1], with
\* sTable[idx-1] <= s <= sTable[idx] and (idx-1)/samples <= u <= idx/samples;
\* u is non-decreasing in targetS.
C26_ArcLengthLookup ==
  call.op = "uByArcLength" =>
    LET samples == Len(call.sTable) - 1
    IN  /\ ret.ended
        /\ RLe(Zero, ret.u) /\ RLe(ret.u, One)
        /\ ret.idx \in 1..samples
        /\ RLe(call.sTable[ret.idx], ret.s) /\ RLe(ret.s, call.sTable[ret.idx + 1])
        /\ RLe(Rat(ret.idx - 1, samples), ret.u) /\ RLe(ret.u, Rat(ret.idx, samples))
        /\ \A later \in ArcTargets([length |-> call.length, sTable |-> call.sTable]) :
             RLe(call.targetS, later)
               => RLe(ret.u, uByArcLength(later, call.length, call.sTable).u)

\* a target on an entry that repeats the entry before it, in the longest
\* table: the search made passes and the divisor was 1e-6
C26_Witness ==
  /\ call.op = "uByArcLength"
  /\ Len(call.sTable) = MaxSamples + 1
  /\ ret.passes >= 2
  /\ call.sTable[ret.idx] = call.sTable[ret.idx + 1]
  /\ ret.ended

\* ---------------------------------------------------------------------- C27
\* C27: Speedy becomes captured only through a click on the canvas while the
\* capture mode is on, Speedy is not yet captured and the click is strictly
\* inside its bounding box; while it is captured no step changes its position
\* or direction; it is released only by a frame whose deltaTime takes the
\* accumulated captureTime beyond 3000 ms, with captured = false and
\* captureTime = 0 afterwards; and if the frames keep running un-paused a
\* captured Speedy is eventually released.
C27_CaptureAndRelease ==
  /\ [][/\ (~speedy.captured /\ speedy'.captured)
             => /\ frame'.handler = "click"
                /\ captureMode
                /\ Abs(frame'.clickX - speedy.x) < HalfWidth
                /\ Abs(frame'.clickY - speedy.y) < HalfHeight
        /\ speedy.captured
             => /\ speedy'.x = speedy.x
                /\ speedy'.y = speedy.y
                /\ speedy'.direction = speedy.direction
        /\ (speedy.captured /\ ~speedy'.captured)
             => /\ frame'.handler = "animate"
                /\ animationRunning
                /\ speedy.captureTime + frame'.deltaTime > 3000
                /\ speedy'.captureTime = 0]_vars
  /\ [](~speedy.captured => speedy.captureTime = 0)
  /\ (speedy.captured /\ animationRunning) ~> (~speedy.captured \/ ~animationRunning)

\* Speedy is captured and has accumulated exactly 3000 ms: it is still held
C27_Witness ==
  /\ speedy.captured
  /\ speedy.captureTime = 3000
  /\ animationRunning
  /\ frame.handler = "animate"

\* ---------------------------------------------------------------------- C22
\* C22: deCasteljau, deCasteljauRational, generateBezier, generateBSpline and
\* generateCurve leave the control-point list they are passed and every point
\* object of it unchanged, and RevolutionSurface.generate leaves the profile
\* unchanged: after the call every object the caller held, the array and each
\* of its points, is as it was before.
C22_ArgumentsUnchanged ==
  (call.op # "none" /\ "heap" \in DOMAIN call)
    => /\ Len(ret.heap) >= Len(call.heap)
       /\ \A ref \in 1..Len(call.heap) : ret.heap[ref] = call.heap[ref]

\* deCasteljauRational has run its rounds on three points: the heap has the
\* copies, the objects of both rounds and the result
C22_Witness ==
  /\ call.op = "deCasteljauRational"
  /\ "heap" \in DOMAIN call
  /\ Len(call.points) = MaxProfile
  /\ Len(ret.heap) > Len(call.heap) + 2 * MaxProfile
  /\ ret.heap[call.ref].items = Array([i \in 1..MaxProfile |-> i])

====
